---- MODULE Spec2Model ----
(***************************************************************************)
(* A model of the thesis-translate pipeline: the token-aware chunk planner *)
(* (StreamingTranslator.chunk_generator), the retrying single-chunk engine *)
(* wrapper (_invoke_model / _translate_chunk), the sequential and parallel *)
(* executors (_translate_sequential / _translate_parallel), the polling    *)
(* FileWatcher, the TranslationWorker and the orchestrator.                *)
(*                                                                         *)
(* Text is a sequence of characters.  The token counter (tiktoken) is an   *)
(* external collaborator; it is modelled as one token per character, so a  *)
(* chunk's token count is the sum of its lines' token counts, which is the *)
(* quantity chunk_generator itself computes.  The arithmetic on floats in  *)
(* chunk_generator (total / num_chunks, 0.7 * target) is done on integers  *)
(* by cross-multiplication.                                                *)
(***************************************************************************)
EXTENDS Integers, Sequences, FiniteSets, TLC

\* ------------------------------------------------------------------ bounds
MaxLines == 4
MaxLineTok == 4
MaxMTL == 4
MaxRetries == 2
MaxChunks == 3
MaxPool == 3
MaxFileLen == 2
MinTokens == 2
MaxAcc == 3
MaxCalls == 2
MaxDispatch == 1
QueueCap == 1
MaxCtorCalls == 3

\* -------------------------------------------------------------------- text
NL == "nl"

RECURSIVE Repeat(_, _)
Repeat(c, n) == IF n <= 0 THEN <<>> ELSE <<c>> \o Repeat(c, n - 1)

\* A line of t >= 1 tokens: t-1 word characters and the line terminator.
LineOfTokens(t) == Repeat("a", t - 1) \o <<NL>>

\* TokenCounter.count_tokens
count_tokens(text) == Len(text)

RECURSIVE Concat(_)
Concat(texts) == IF texts = <<>> THEN <<>> ELSE Head(texts) \o Concat(Tail(texts))

RECURSIVE SumSeq(_)
SumSeq(s) == IF s = <<>> THEN 0 ELSE Head(s) + SumSeq(Tail(s))

\* str.splitlines(keepends=True)
RECURSIVE splitlines(_, _)
splitlines(text, cur) ==
    IF text = <<>> THEN (IF cur = <<>> THEN <<>> ELSE <<cur>>)
    ELSE IF Head(text) = NL THEN <<cur \o <<NL>>>> \o splitlines(Tail(text), <<>>)
    ELSE splitlines(Tail(text), cur \o <<Head(text)>>)

\* math.ceil(a / b) for a >= 0, b >= 1
CeilDiv(a, b) == (a + b - 1) \div b

\* ------------------------------------------------------- chunk_generator
MIN_LAST_CHUNK_RATIO_NUM == 7
MIN_LAST_CHUNK_RATIO_DEN == 10
MIN_CHUNKS_FOR_MERGE == 2

ChunkRec(text, tokens, oversized) ==
    [text |-> text, tokens |-> tokens, oversized |-> oversized]

\* The test of line 164: the buffer is empty and the line alone is over the limit.
OversizedAlone(buffer, tok, mtl) == buffer = <<>> /\ tok > mtl

FinalizeOnlyWhenChunksRemain(numChunks, chunkIndex, candidate, mtl) ==
    numChunks - chunkIndex > 1

\* Line 183: finalize unless this is the last planned chunk and the line fits.
should_finalize(numChunks, chunkIndex, candidate, mtl) ==
    (numChunks - chunkIndex > 1) \/ candidate > mtl

\* One iteration of the loop of lines 160-211.
ChunkStep(st, line, total, numChunks, mtl) ==
    LET tok == count_tokens(line)
        candidate == st.cur + tok
        accumulate == [st EXCEPT !.buffer = @ \o line, !.cur = candidate]
    IN  IF OversizedAlone(st.buffer, tok, mtl)
        THEN [st EXCEPT !.idx = @ + 1,
                        !.chunks = Append(@, ChunkRec(line, tok, TRUE))]
        ELSE IF st.buffer # <<>> /\ candidate * numChunks >= total
        THEN IF should_finalize(numChunks, st.idx, candidate, mtl)
             THEN LET flushed == Append(st.chunks, ChunkRec(st.buffer, st.cur, FALSE))
                  IN  IF tok > mtl
                      THEN [buffer |-> <<>>, cur |-> 0, idx |-> st.idx + 2,
                            chunks |-> Append(flushed, ChunkRec(line, tok, TRUE))]
                      ELSE [buffer |-> line, cur |-> tok, idx |-> st.idx + 1,
                            chunks |-> flushed]
             ELSE accumulate
        ELSE accumulate

RECURSIVE ChunkLoop(_, _, _, _, _)
ChunkLoop(st, lines, total, numChunks, mtl) ==
    IF lines = <<>> THEN st
    ELSE ChunkLoop(ChunkStep(st, Head(lines), total, numChunks, mtl),
                   Tail(lines), total, numChunks, mtl)

CaptureFinalDropped(st) == st.chunks

\* Lines 214-216: the final buffer becomes the last chunk.
CaptureFinal(st) ==
    IF st.buffer # <<>>
    THEN Append(st.chunks, ChunkRec(st.buffer, st.cur, FALSE))
    ELSE st.chunks

\* Lines 219-231: merge a tiny last chunk into the previous one.
MergeTail(chunks, total, numChunks, mtl) ==
    IF Len(chunks) >= MIN_CHUNKS_FOR_MERGE
    THEN LET last == chunks[Len(chunks)]
             prev == chunks[Len(chunks) - 1]
         IN  IF /\ ~last.oversized
                /\ ~prev.oversized
                /\ MIN_LAST_CHUNK_RATIO_DEN * last.tokens * numChunks
                     < MIN_LAST_CHUNK_RATIO_NUM * total
                /\ prev.tokens + last.tokens <= mtl
             THEN SubSeq(chunks, 1, Len(chunks) - 2)
                    \o <<ChunkRec(prev.text \o last.text,
                                  prev.tokens + last.tokens, FALSE)>>
             ELSE chunks
    ELSE chunks

\* The list `chunks` of chunk_generator just before it is yielded
\* (text, tokens, oversized); the single-chunk case of lines 144-149 included.
ChunkPlan(lines, mtl) ==
    LET total == SumSeq([i \in 1..Len(lines) |-> count_tokens(lines[i])])
    IN  IF total <= mtl
        THEN <<ChunkRec(Concat(lines), total, FALSE)>>
        ELSE LET numChunks == CeilDiv(total, mtl)
                 st0 == [buffer |-> <<>>, cur |-> 0, idx |-> 0, chunks |-> <<>>]
                 st == ChunkLoop(st0, lines, total, numChunks, mtl)
             IN  MergeTail(CaptureFinal(st), total, numChunks, mtl)

\* What chunk_generator yields: (index, text), indices from enumerate(start=1).
chunk_generator(lines, mtl) ==
    LET plan == ChunkPlan(lines, mtl)
    IN  [i \in 1..Len(plan) |-> <<i, plan[i].text>>]

\* ------------------------------------------ _invoke_model / _translate_chunk
NULL == "None"

\* What the external chat-completion call can do on one invocation: stream a
\* non-empty text, stream nothing, or fail with any exception.
ApiBehaviours == {"text", "empty", "error"}

\* The text the engine returns for a chunk text (opaque, non-empty).
Translated(text) == <<"T">> \o text

\* _invoke_model: the outcome of one call.  Every exception of the external
\* call is caught (line 315) and raised again as TranslationError(is_transient
\* = True); an empty content raises TranslationError(is_transient = False).
\* "Exception" stands for any other exception leaving _invoke_model.
InvokeLeaky(behaviour, text) ==
    CASE behaviour = "text"  -> [kind |-> "ok", value |-> Translated(text)]
      [] behaviour = "empty" -> [kind |-> "TranslationError", is_transient |-> FALSE]
      [] behaviour = "error" -> [kind |-> "Exception"]

\* An engine wrapper that reports an empty response as a transient failure.
InvokeEmptyTransient(behaviour, text) ==
    CASE behaviour = "text"  -> [kind |-> "ok", value |-> Translated(text)]
      [] behaviour = "empty" -> [kind |-> "TranslationError", is_transient |-> TRUE]
      [] behaviour = "error" -> [kind |-> "TranslationError", is_transient |-> TRUE]

_invoke_model(behaviour, text) ==
    CASE behaviour = "text"  -> [kind |-> "ok", value |-> Translated(text)]
      [] behaviour = "empty" -> [kind |-> "TranslationError", is_transient |-> FALSE]
      [] behaviour = "error" -> [kind |-> "TranslationError", is_transient |-> TRUE]

\* Line 372: the attempt that ends the retries.
OffByOneLastAttempt(attempt, maxRetries) == attempt = maxRetries + 2

IsLastAttempt(attempt, maxRetries) == attempt = maxRetries + 1

\* One iteration of the loop of _translate_chunk (lines 358-387) for the
\* outcome `o` of this attempt's _invoke_model call.  st = [attempt, calls,
\* sleeps, pc, result]; pc is "loop" while the loop runs, "returned" once the
\* method has returned `result`, "raised" if an exception left the method.
TranslateChunkStep(st, o, maxRetries, backoff) ==
    LET called == [st EXCEPT !.calls = @ + 1]
    IN  IF o.kind = "ok"
        THEN [called EXCEPT !.pc = "returned", !.result = o.value]
        ELSE IF o.kind = "TranslationError"
        THEN IF o.is_transient
             THEN IF IsLastAttempt(st.attempt, maxRetries)
                  THEN [called EXCEPT !.pc = "returned", !.result = NULL]
                  ELSE [called EXCEPT !.attempt = @ + 1,
                                      !.sleeps = IF backoff THEN @ + 1 ELSE @]
             ELSE [called EXCEPT !.pc = "returned", !.result = NULL]
        ELSE [called EXCEPT !.pc = "raised"]

TranslateChunkStart ==
    [attempt |-> 1, calls |-> 0, sleeps |-> 0, pc |-> "loop", result |-> NULL]

\* ------------------------- _translate_sequential / _translate_parallel
\* What one _translate_chunk call of a run comes to: a text, None, or (a stub
\* breaking the method's contract) an exception.
ChunkOutcomes == {"text", "null", "raise"}

SEPARATOR == <<NL, NL>>

\* Lines 535-539 and 602-606: a truthy translation is stored under its chunk
\* index and counted as a success, anything else as a failure.  acc =
\* [results, successes, failures]; results is the dict translated_results, kept
\* in insertion order as a sequence of <<chunk_index, translation>>.
RecordTranslation(acc, chunkIndex, translation) ==
    IF translation # NULL /\ translation # <<>>
    THEN [acc EXCEPT !.results = Append(@, <<chunkIndex, translation>>),
                     !.successes = @ + 1]
    ELSE [acc EXCEPT !.failures = @ + 1]

\* An exception of a worker that is logged but not counted.
RecordExceptionUncounted(acc, chunkIndex) == acc

\* Lines 615-617: future.result() raised; the chunk is counted as a failure.
RecordException(acc, chunkIndex) == [acc EXCEPT !.failures = @ + 1]

EmptyAcc == [results |-> <<>>, successes |-> 0, failures |-> 0]

InResults(results, chunkIndex) ==
    \E k \in 1..Len(results) : results[k][1] = chunkIndex

Lookup(results, chunkIndex) ==
    results[CHOOSE k \in 1..Len(results) : results[k][1] = chunkIndex][2]

RECURSIVE WriteInInsertionOrder(_, _)
WriteInInsertionOrder(results, chunks) ==
    IF results = <<>> THEN <<>>
    ELSE Head(results)[2] \o SEPARATOR \o WriteInInsertionOrder(Tail(results), chunks)

\* _write_translations: the file content, the translations of the chunks that
\* are in `results`, in the order of `chunks`, each followed by "\n\n".
RECURSIVE _write_translations(_, _)
_write_translations(results, chunks) ==
    IF chunks = <<>> THEN <<>>
    ELSE (IF InResults(results, Head(chunks)[1])
          THEN Lookup(results, Head(chunks)[1]) \o SEPARATOR
          ELSE <<>>)
         \o _write_translations(results, Tail(chunks))

SeqBreaksOnFailure(chunkIndex, translation, n) ==
    IF translation = NULL THEN n + 1 ELSE chunkIndex + 1

\* The for loop of _translate_sequential: the chunk handled after chunkIndex.
SeqNextChunk(chunkIndex, translation, n) == chunkIndex + 1

\* __init__ line 123
ClampWorkers(w) == IF w < 1 THEN 1 ELSE IF w > 10 THEN 10 ELSE w

\* ------------------------------------------------------------ FileWatcher
\* The input file is UTF-8 text: "k" stands for a character of two bytes, the
\* line terminator is one byte.
FileChars == {"k", NL}
ByteLen(c) == IF c = "k" THEN 2 ELSE 1

\* len(text.encode("utf-8")), and st_size of a file holding text
RECURSIVE ByteSize(_)
ByteSize(text) == IF text = <<>> THEN 0 ELSE ByteLen(Head(text)) + ByteSize(Tail(text))

\* The index of the character that starts at byte `off` of text (Len + 1 at
\* the end of the text); 0 when `off` is inside a character or past the end.
RECURSIVE CharIndexAt(_, _, _, _)
CharIndexAt(text, off, i, pos) ==
    IF pos = off THEN i
    ELSE IF i > Len(text) \/ pos > off THEN 0
    ELSE CharIndexAt(text, off, i + 1, pos + ByteLen(text[i]))

DecodeError == <<"UnicodeDecodeError">>

MinOf(a, b) == IF a <= b THEN a ELSE b

\* Lines 304-306: f.seek(off); f.read(n) on a file opened as text: at most n
\* CHARACTERS from byte `off`; a seek into the middle of a character makes
\* the read fail.
ReadText(text, off, n) ==
    LET i == CharIndexAt(text, off, 1, 0)
    IN  IF i = 0 THEN DecodeError
        ELSE SubSeq(text, i, MinOf(Len(text), i + n - 1))

\* str.startswith
StartsWith(text, prefix) ==
    /\ Len(prefix) <= Len(text)
    /\ SubSeq(text, 1, Len(prefix)) = prefix

\* text[len(prefix):]
DropPrefix(text, prefix) == SubSeq(text, Len(prefix) + 1, Len(text))

\* The persisted state file: absent, unreadable as JSON, or a JSON object
\* holding last_processed_offset.
ABSENT == [kind |-> "absent", last_processed_offset |-> 0]
CORRUPT == [kind |-> "corrupt", last_processed_offset |-> 0]
StateFile(off) == [kind |-> "json", last_processed_offset |-> off]

\* State files that json.load does not turn into a dictionary: bytes that are
\* not UTF-8, and a JSON document that is not an object (a list, a number,
\* null); and an object without the key last_processed_offset.
NOTUTF8 == [kind |-> "notutf8", last_processed_offset |-> 0]
NOTOBJECT == [kind |-> "notobject", last_processed_offset |-> 0]
NOKEY == [kind |-> "nokey", last_processed_offset |-> 0]

\* _load_state, lines 414-418 and 425: only json.JSONDecodeError and OSError
\* are caught; the UnicodeDecodeError of open/read and the AttributeError of
\* state.get on a value that is not a dictionary leave _load_state and
\* __init__.
LoadRaises(stateFile) == stateFile.kind \in {"notutf8", "notobject"}

\* _load_state, when it returns
LoadState(stateFile) ==
    IF stateFile.kind = "json" THEN stateFile.last_processed_offset ELSE 0

\* A threshold test that lets any non-empty content through.
should_translate_any(flush, tokenCount, minTokens) == flush \/ tokenCount > 0

\* _handle_auto_translate_mode, line 380
should_translate(flush, tokenCount, minTokens) == flush \/ tokenCount >= minTokens

\* A thread's frame: position, the arguments and locals of _check_and_trigger
\* (flush, current_size, last_offset, new_content / content), the snapshot
\* trigger_translation_manual took (its offset), the state _save_state is
\* about to write, and where the running call returns to.
IdleFrame ==
    [pc |-> "idle", flush |-> FALSE, size |-> 0, last |-> 0, content |-> <<>>,
     snap |-> 0, ret |-> "idle"]

\* ------------------------------------------------------ TranslationWorker
\* TranslationResult.  translated_text = None is the flag text_is_none; id is
\* the number of the translate_async call that produced the result (ghost).
TranslationResult(id, successes, failures, text, textIsNone, startOffset, length, error) ==
    [id |-> id, successes |-> successes, failures |-> failures,
     translated_text |-> text, text_is_none |-> textIsNone,
     start_offset |-> startOffset, content_length_bytes |-> length,
     error |-> error]

NoResult == TranslationResult(0, 0, 0, <<>>, FALSE, 0, 0, FALSE)

\* The byte length of the content a result stands for.
content_length_bytes(content) == ByteSize(content)

\* What one _invoke_model call of the worker can do: the three behaviours of
\* the external call, or an exception raised outside its try block (prompt
\* formatting, token counting).
WorkerBehaviours == ApiBehaviours \cup {"crash"}

WorkerInvoke(behaviour, text) ==
    IF behaviour = "crash" THEN [kind |-> "Exception"]
    ELSE _invoke_model(behaviour, text)

\* Line 135: the exceptions the per-chunk handler catches are the engine's
\* transient and permanent failures.
EngineFailure(o) == o.kind = "TranslationError"

\* "\n\n".join(parts)
RECURSIVE JoinParts(_)
JoinParts(parts) ==
    IF parts = <<>> THEN <<>>
    ELSE IF Len(parts) = 1 THEN Head(parts)
    ELSE Head(parts) \o SEPARATOR \o JoinParts(Tail(parts))

\* A loop that gives up the remaining chunks at the first engine failure.
RECURSIVE ChunkLoopStopsAtFailure(_, _, _, _)
ChunkLoopStopsAtFailure(chunks, script, i, acc) ==
    IF i > Len(chunks) THEN acc
    ELSE LET o == WorkerInvoke(script[i], chunks[i][2])
         IN  IF o.kind = "ok"
             THEN ChunkLoopStopsAtFailure(chunks, script, i + 1,
                      [acc EXCEPT !.parts = Append(@, o.value), !.successes = @ + 1])
             ELSE IF EngineFailure(o)
             THEN [acc EXCEPT !.failures = @ + 1]
             ELSE [acc EXCEPT !.unexpected = TRUE]

\* Lines 126-138: the loop over the chunks; script[i] is what the i-th engine
\* call does.  An exception that is not an engine failure leaves the loop.
RECURSIVE ChunkLoopOfWorker(_, _, _, _)
ChunkLoopOfWorker(chunks, script, i, acc) ==
    IF i > Len(chunks) THEN acc
    ELSE LET o == WorkerInvoke(script[i], chunks[i][2])
         IN  IF o.kind = "ok"
             THEN ChunkLoopOfWorker(chunks, script, i + 1,
                      [acc EXCEPT !.parts = Append(@, o.value), !.successes = @ + 1])
             ELSE IF EngineFailure(o)
             THEN ChunkLoopOfWorker(chunks, script, i + 1,
                      [acc EXCEPT !.failures = @ + 1])
             ELSE [acc EXCEPT !.unexpected = TRUE]

\* A worker whose catch-all handler is missing: the exception leaves the thread.
OnUnexpectedEscapes(id, content, startOffset) ==
    [raised |-> TRUE, result |-> NoResult]

\* Lines 178-192: the catch-all handler builds the error result.
OnUnexpected(id, content, startOffset) ==
    [raised |-> FALSE,
     result |-> TranslationResult(id, 0, 1, <<>>, TRUE, startOffset,
                                  content_length_bytes(content), TRUE)]

\* _translate_worker up to its put: the result it is about to put, or the
\* exception that leaves the thread.  planRaises: an exception inside
\* splitlines / chunk_generator.
_translate_worker(id, content, startOffset, mtl, planRaises, script) ==
    IF planRaises THEN OnUnexpected(id, content, startOffset)
    ELSE
    LET split == splitlines(content, <<>>)
        lines == IF split = <<>> THEN <<content>> ELSE split
        chunks == chunk_generator(lines, mtl)
        acc == ChunkLoopOfWorker(chunks, script, 1,
                   [parts |-> <<>>, successes |-> 0, failures |-> 0,
                    unexpected |-> FALSE])
    IN  IF chunks = <<>>
        THEN [raised |-> FALSE,
              result |-> TranslationResult(id, 0, 0, <<>>, FALSE, startOffset,
                                           content_length_bytes(content), FALSE)]
        ELSE IF acc.unexpected THEN OnUnexpected(id, content, startOffset)
        ELSE [raised |-> FALSE,
              result |-> TranslationResult(id, acc.successes, acc.failures,
                                           JoinParts(acc.parts), FALSE, startOffset,
                                           content_length_bytes(content), FALSE)]

\* A worker thread: position, the arguments of _translate_worker, the result
\* about to be put.
NewWorker(content, offset) ==
    [pc |-> "start", content |-> content, offset |-> offset, result |-> NoResult]

\* ------------------------------------------------------------ state
VARIABLES
    \* chunk planner run: input lines, max_token_length, yielded chunks, position
    c_lines, c_mtl, c_out, c_pc,
    \* one _translate_chunk call: max_retries, retry_backoff_seconds > 0, the
    \* external call's behaviour on its 1st, 2nd, ... invocation, loop state
    r_max_retries, r_backoff, r_script, r_st,
    \* two translate() runs over the same chunks with the same stub: the chunk
    \* list, each chunk's outcome, the pool size of the parallel run;
    \* sequential run: position, next chunk, accumulators, output file;
    \* parallel run: position, each future's state, the futures already
    \* yielded by as_completed, accumulators, output file
    t_chunks, t_outcome, t_workers,
    s_pc, s_next, s_acc, s_out,
    p_pc, p_future, p_collected, p_acc, p_out,
    \* the input file; FileWatcher: auto_translate, min_tokens,
    \* _last_processed_offset, _accumulated_content, _translation_ready,
    \* _ready_token_count, _next_threshold, the state file, _shutdown_event,
    \* _monitoring_thread, the frames of the polling thread and of the threads
    \* calling stop() / trigger_translation_manual(), the operations started
    \* by callers so far; the translation callback; the polling thread's
    \* last failed call
    file, w_auto, w_min, w_offset, w_acc, w_ready, w_ready_tokens, w_threshold,
    w_state, w_shutdown, w_thread, th, w_ops, cb, w_failed,
    \* TranslationWorker: the threads spawned by translate_async in call order,
    \* the result queue, the start_offset of the results taken from it per call
    wk, queue, taken,
    \* Orchestrator: _shutdown_requested, _active_translations,
    \* _total_successes, _total_failures, the output file, the position of the
    \* thread inside run()
    o_shutdown, o_active, o_succ, o_fail, o_out, o_main,
    \* the lock discipline: the locks each thread holds, the statements left
    \* of the operation it is in, the blocking call it is executing
    lk_held, lk_todo, lk_in,
    \* TokenCounter: _instance, the objects created, the encodings loaded,
    \* the holder of _lock, each constructing thread's position and the
    \* object its call returned
    tc_instance, tc_created, tc_loads, tc_lock, tc_pc, tc_ret

chunkVars == <<c_lines, c_mtl, c_out, c_pc>>
retryVars == <<r_max_retries, r_backoff, r_script, r_st>>
transVars == <<t_chunks, t_outcome, t_workers, s_pc, s_next, s_acc, s_out,
               p_pc, p_future, p_collected, p_acc, p_out>>
watchVars == <<file, w_auto, w_min, w_offset, w_acc, w_ready, w_ready_tokens,
               w_threshold, w_state, w_shutdown, w_thread, th, w_ops, cb, w_failed>>
workVars == <<wk, queue, taken>>
orchVars == <<o_shutdown, o_active, o_succ, o_fail, o_out, o_main>>
lockVars == <<lk_held, lk_todo, lk_in>>
counterVars == <<tc_instance, tc_created, tc_loads, tc_lock, tc_pc, tc_ret>>
vars == <<chunkVars, retryVars, transVars, watchVars, workVars, orchVars,
          lockVars, counterVars>>
notChunk == <<retryVars, transVars, watchVars, workVars, orchVars, lockVars, counterVars>>
notRetry == <<chunkVars, transVars, watchVars, workVars, orchVars, lockVars, counterVars>>
notTrans == <<chunkVars, retryVars, watchVars, workVars, orchVars, lockVars, counterVars>>
notWatch == <<chunkVars, retryVars, transVars, workVars, orchVars, lockVars, counterVars>>
\* The translation callback runs inside the watcher's handlers.
notWatchCb == <<chunkVars, retryVars, transVars, lockVars, counterVars>>
notWork == <<chunkVars, retryVars, transVars, watchVars, orchVars, lockVars, counterVars>>
notOrch == <<chunkVars, retryVars, transVars, lockVars, counterVars>>
notLocks == <<chunkVars, retryVars, transVars, watchVars, workVars, orchVars, counterVars>>
notCounter == <<chunkVars, retryVars, transVars, watchVars, workVars, orchVars, lockVars>>

\* ================================================================
\* The chunk planner applied to bounded inputs
\* ================================================================
LineSeqs(n) == [1..n -> {LineOfTokens(t) : t \in 1..MaxLineTok}]

ChunkInit ==
    /\ c_lines \in UNION {LineSeqs(n) : n \in 0..MaxLines}
    /\ c_mtl \in 1..MaxMTL
    /\ c_out = <<>>
    /\ c_pc = "ready"

ChunkIdle ==
    /\ c_lines = <<>>
    /\ c_mtl = 1
    /\ c_out = <<>>
    /\ c_pc = "idle"

\* chunks = list(self.chunk_generator(lines))
GenerateChunks ==
    /\ c_pc = "ready"
    /\ c_out' = chunk_generator(c_lines, c_mtl)
    /\ c_pc' = "done"
    /\ UNCHANGED <<c_lines, c_mtl>>
    /\ UNCHANGED notChunk

\* ------------------------------------------------ claims on the planner
ChunkTexts == [i \in 1..Len(c_out) |-> c_out[i][2]]
ChunkLines(i) == splitlines(c_out[i][2], <<>>)
ChunkTokens(i) ==
    SumSeq([k \in 1..Len(ChunkLines(i)) |-> count_tokens(ChunkLines(i)[k])])

\* C3: the chunk texts yielded by chunk_generator, concatenated in order, are
\* the concatenation of the input lines; the lines of the chunks, read chunk
\* after chunk, are the input lines in their order (each line in exactly one
\* chunk); and the yielded indices are 1..N with no gap.
C3_ChunkCompleteness ==
    c_pc = "done" =>
        /\ Concat(ChunkTexts) = Concat(c_lines)
        /\ Concat([i \in 1..Len(c_out) |-> ChunkLines(i)]) = c_lines
        /\ Len(c_out) >= 1
        /\ \A i \in 1..Len(c_out) : c_out[i][1] = i

\* C3 witness: several chunks were yielded and some chunk holds several lines.
C3_Witness ==
    /\ c_pc = "done"
    /\ Len(c_out) >= 2
    /\ \E i \in 1..Len(c_out) : Len(ChunkLines(i)) >= 2

\* C4: a yielded chunk has at most max_token_length tokens unless it is one
\* single line that is itself over the limit, and a line over the limit never
\* shares a chunk with another line.
C4_ChunkBounded ==
    c_pc = "done" =>
        \A i \in 1..Len(c_out) :
            /\ ChunkTokens(i) <= c_mtl \/ Len(ChunkLines(i)) = 1
            /\ Len(ChunkLines(i)) > 1 =>
                   \A k \in 1..Len(ChunkLines(i)) :
                       count_tokens(ChunkLines(i)[k]) <= c_mtl

\* C4 witness: an oversized line reached with a non-empty buffer is a chunk of
\* its own, right after the chunk the buffer was closed into.
C4_Witness ==
    /\ c_pc = "done"
    /\ \E i \in 2..Len(c_out) :
           /\ ChunkTokens(i) > c_mtl
           /\ Len(ChunkLines(i)) = 1
           /\ ChunkTokens(i - 1) <= c_mtl
           /\ Len(ChunkLines(i - 1)) >= 2

\* ================================================================
\* One _translate_chunk call against a scripted engine
\* ================================================================
ChunkText == <<"a", NL>>

RetryInit ==
    /\ r_max_retries \in 0..MaxRetries
    /\ r_backoff \in BOOLEAN
    /\ r_script \in [1..(MaxRetries + 2) -> ApiBehaviours]
    /\ r_st = TranslateChunkStart

RetryIdle ==
    /\ r_max_retries = 0
    /\ r_backoff = FALSE
    /\ r_script = <<>>
    /\ r_st = [TranslateChunkStart EXCEPT !.pc = "idle"]

\* One pass through the retry loop: the engine is invoked and its outcome handled.
Attempt ==
    /\ r_st.pc = "loop"
    /\ r_st' = TranslateChunkStep(r_st, _invoke_model(r_script[r_st.calls + 1], ChunkText),
                                  r_max_retries, r_backoff)
    /\ UNCHANGED <<r_max_retries, r_backoff, r_script>>
    /\ UNCHANGED notRetry

\* ================================================================
\* translate(): a sequential and a parallel run over the same chunks
\* ================================================================
NOFILE == "no file"

TransInit ==
    /\ \E n \in 1..MaxChunks :
          /\ t_chunks = [i \in 1..n |-> <<i, LineOfTokens(i)>>]
          /\ t_outcome \in [1..n -> ChunkOutcomes]
          /\ p_future = [i \in 1..n |-> "unsubmitted"]
    /\ t_workers \in {ClampWorkers(w) : w \in 2..MaxPool}
    /\ s_pc = "loop" /\ s_next = 1 /\ s_acc = EmptyAcc /\ s_out = NOFILE
    /\ p_pc = "submit" /\ p_collected = {} /\ p_acc = EmptyAcc /\ p_out = NOFILE

TransIdle ==
    /\ t_chunks = <<>> /\ t_outcome = <<>> /\ t_workers = 1
    /\ s_pc = "idle" /\ s_next = 1 /\ s_acc = EmptyAcc /\ s_out = NOFILE
    /\ p_pc = "idle" /\ p_future = <<>> /\ p_collected = {}
    /\ p_acc = EmptyAcc /\ p_out = NOFILE

\* The stub's return value for chunk i (None, or the chunk's translation).
StubValue(i) ==
    IF t_outcome[i] = "text" THEN Translated(t_chunks[i][2]) ELSE NULL

tInputs == <<t_chunks, t_outcome, t_workers>>
seqVars == <<s_pc, s_next, s_acc, s_out>>
parVars == <<p_pc, p_future, p_collected, p_acc, p_out>>

\* _translate_sequential, one chunk (lines 525-550).  An exception of the
\* stub is not caught here and ends translate().
SeqChunk ==
    /\ s_pc = "loop"
    /\ s_next <= Len(t_chunks)
    /\ IF t_outcome[s_next] = "raise"
       THEN /\ s_pc' = "raised"
            /\ UNCHANGED <<s_next, s_acc>>
       ELSE /\ s_acc' = RecordTranslation(s_acc, t_chunks[s_next][1], StubValue(s_next))
            /\ s_next' = SeqNextChunk(s_next, StubValue(s_next), Len(t_chunks))
            /\ s_pc' = "loop"
    /\ UNCHANGED <<s_out, tInputs, parVars>>
    /\ UNCHANGED notTrans

\* _translate_sequential, lines 552-559: write the file and return.
SeqWrite ==
    /\ s_pc = "loop"
    /\ s_next > Len(t_chunks)
    /\ s_out' = _write_translations(s_acc.results, t_chunks)
    /\ s_pc' = "done"
    /\ UNCHANGED <<s_next, s_acc, tInputs, parVars>>
    /\ UNCHANGED notTrans

\* _translate_parallel, lines 586-593: every chunk is submitted to the pool.
ParSubmit ==
    /\ p_pc = "submit"
    /\ s_pc \in {"done", "raised"}
    /\ p_future' = [i \in 1..Len(t_chunks) |-> "queued"]
    /\ p_pc' = "collect"
    /\ UNCHANGED <<p_collected, p_acc, p_out, tInputs, seqVars>>
    /\ UNCHANGED notTrans

Running == {i \in 1..Len(p_future) : p_future[i] = "running"}

\* A free pool thread takes the oldest queued work item.
ParStart(i) ==
    /\ p_future[i] = "queued"
    /\ \A j \in 1..(i - 1) : p_future[j] # "queued"
    /\ Cardinality(Running) < t_workers
    /\ p_future' = [p_future EXCEPT ![i] = "running"]
    /\ UNCHANGED <<p_pc, p_collected, p_acc, p_out, tInputs, seqVars>>
    /\ UNCHANGED notTrans

\* A pool thread's _translate_chunk call ends (returns or raises).
ParFinish(i) ==
    /\ p_future[i] = "running"
    /\ p_future' = [p_future EXCEPT ![i] = "done"]
    /\ UNCHANGED <<p_pc, p_collected, p_acc, p_out, tInputs, seqVars>>
    /\ UNCHANGED notTrans

\* as_completed yields a finished future; lines 596-628 handle it.
ParCollect(i) ==
    /\ p_pc = "collect"
    /\ p_future[i] = "done"
    /\ i \notin p_collected
    /\ p_collected' = p_collected \cup {i}
    /\ p_acc' = IF t_outcome[i] = "raise"
                THEN RecordException(p_acc, t_chunks[i][1])
                ELSE RecordTranslation(p_acc, t_chunks[i][1], StubValue(i))
    /\ UNCHANGED <<p_pc, p_future, p_out, tInputs, seqVars>>
    /\ UNCHANGED notTrans

\* Lines 630-637: every future was handled; write the file and return.
ParWrite ==
    /\ p_pc = "collect"
    /\ p_collected = 1..Len(t_chunks)
    /\ p_out' = _write_translations(p_acc.results, t_chunks)
    /\ p_pc' = "done"
    /\ UNCHANGED <<p_future, p_collected, p_acc, tInputs, seqVars>>
    /\ UNCHANGED notTrans

NextTrans ==
    \/ SeqChunk
    \/ SeqWrite
    \/ ParSubmit
    \/ \E i \in 1..Len(t_chunks) : ParStart(i)
    \/ \E i \in 1..Len(t_chunks) : ParFinish(i)
    \/ \E i \in 1..Len(t_chunks) : ParCollect(i)
    \/ ParWrite

\* ================================================================
\* FileWatcher: the polling thread, callers of stop() and
\* trigger_translation_manual(), and the producer appending to the file
\* ================================================================
POLL == "poll"
Callers == {"c1", "c2"}
\* Each calling thread stands for one call of stop() or of
\* trigger_translation_manual().
MaxOps == Cardinality(Callers)
Threads == {POLL} \cup Callers
NOCALL == [content |-> <<>>, offset |-> -1]

\* __init__ and start(): the state file is read, the polling thread spawned.
WatchStart(files, auto, callback) ==
    /\ file \in files
    /\ w_auto = auto
    /\ w_min = MinTokens
    /\ w_state \in {ABSENT, CORRUPT}
    /\ w_offset = LoadState(w_state)
    /\ w_acc = <<>>
    /\ w_ready = FALSE
    /\ w_ready_tokens = 0
    /\ w_threshold = w_min
    /\ w_shutdown = FALSE
    /\ w_thread = "alive"
    /\ th = [t \in Threads |->
               IF t = POLL THEN [IdleFrame EXCEPT !.pc = "p_loop", !.ret = "p_loop"]
               ELSE IdleFrame]
    /\ w_ops = 0
    /\ cb = callback
    /\ w_failed = NOCALL

\* ------------------------------------------------ a watcher is constructed
\* The input files found at construction.
FilesOnDisk == UNION {[1..n -> FileChars] : n \in 0..MaxFileLen}

\* The state files found at construction: none, one of any content, or one
\* written by an earlier run that had processed a prefix of the input file.
StateFilesOnDisk(text) ==
    {ABSENT, CORRUPT, NOTUTF8, NOTOBJECT, NOKEY}
        \cup {StateFile(ByteSize(SubSeq(text, 1, n))) : n \in 0..Len(text)}

\* Before FileWatcher(...) is called, in auto mode with a stub callback.
RestartInit ==
    /\ file \in FilesOnDisk
    /\ w_state \in StateFilesOnDisk(file)
    /\ w_auto = TRUE
    /\ w_min = MinTokens
    /\ w_offset = 0
    /\ w_acc = <<>>
    /\ w_ready = FALSE
    /\ w_ready_tokens = 0
    /\ w_threshold = w_min
    /\ w_shutdown = FALSE
    /\ w_thread = "none"
    /\ th = [t \in Threads |-> IdleFrame]
    /\ w_ops = 0
    /\ cb = "stub"
    /\ w_failed = NOCALL

\* __init__, lines 75-86: the offset is 0, then _load_state runs; what it
\* raises leaves the constructor.
Construct ==
    /\ w_thread = "none"
    /\ IF LoadRaises(w_state)
       THEN w_thread' = "failed" /\ UNCHANGED w_offset
       ELSE w_thread' = "constructed" /\ w_offset' = LoadState(w_state)
    /\ UNCHANGED <<file, w_auto, w_min, w_acc, w_ready, w_ready_tokens, w_threshold,
                   w_state, w_shutdown, th, w_ops, cb, w_failed>>
    /\ UNCHANGED notWatch

\* start(): the polling thread is spawned.
Start ==
    /\ w_thread = "constructed"
    /\ w_thread' = "alive"
    /\ th' = [th EXCEPT ![POLL] = [IdleFrame EXCEPT !.pc = "p_loop", !.ret = "p_loop"]]
    /\ UNCHANGED <<file, w_auto, w_min, w_offset, w_acc, w_ready, w_ready_tokens, w_threshold,
                   w_state, w_shutdown, w_ops, cb, w_failed>>
    /\ UNCHANGED notWatch

\* The watcher started on a file that is still empty.
WatchInit(auto, callback) == WatchStart({<<>>}, auto, callback)

WatchIdle ==
    /\ file = <<>> /\ w_auto = TRUE /\ w_min = 1 /\ w_offset = 0 /\ w_acc = <<>>
    /\ w_ready = FALSE /\ w_ready_tokens = 0 /\ w_threshold = 1
    /\ w_state = ABSENT /\ w_shutdown = FALSE /\ w_thread = "none"
    /\ th = [t \in Threads |-> IdleFrame]
    /\ w_ops = 0 /\ cb = "stub" /\ w_failed = NOCALL

wConfig == <<w_auto, w_min>>

\* The numbers of the translate_async calls: direct calls in the worker's
\* own specification, dispatches of the watcher callback in the orchestrator's.
MaxOf(S) == CHOOSE m \in S : \A n \in S : n <= m
WorkerIds == 1..MaxOf({MaxCalls, MaxDispatch, Cardinality(Threads)})

\* No worker has been spawned, the queue is empty.
WorkInit == wk = <<>> /\ queue = <<>> /\ taken = [w \in WorkerIds |-> <<>>]
WorkIdle == wk = <<>> /\ queue = <<>> /\ taken = [w \in WorkerIds |-> <<>>]

OrchIdle ==
    /\ o_shutdown = FALSE /\ o_active = 0 /\ o_succ = 0 /\ o_fail = 0
    /\ o_out = <<>> /\ o_main = "none"

\* The frame of thread t after its _check_and_trigger call (or the whole
\* operation) returned to pc `to`.
Returned(t, to) == [IdleFrame EXCEPT !.pc = to, !.ret = IF t = POLL THEN "p_loop" ELSE "idle"]

\* The frame of thread t after the callback returned: only current_size is
\* still needed.
Advancing(t, to) == [IdleFrame EXCEPT !.pc = to, !.size = th[t].size, !.ret = th[t].ret]

\* The frame of thread t entering _save_state, to return to pc `to`.
Saving(t, to) == [IdleFrame EXCEPT !.pc = "save_snap", !.ret = to]

\* A handler whose callback swallows the failure and goes on to advance.
AfterCallbackSwallowed(t, raises, to) == Advancing(t, to)

\* A handler that lets the failure of the callback escape from the caller's
\* operation.
AfterCallbackEscapes(t, raises, to) ==
    IF raises THEN Returned(t, IF t = POLL THEN th[t].ret ELSE "idle")
    ELSE Advancing(t, to)

\* Lines 388-397 and 335-345: a callback that raises is logged and ends the
\* handler; one that returns lets it go on to advance the offset.
AfterCallback(t, raises, to) ==
    IF raises THEN Returned(t, th[t].ret) ELSE Advancing(t, to)

\* The translation callback.  A stub is handed (content, offset) and returns
\* or raises; the orchestrator's callback (concurrent_orchestrator.py, lines
\* 125-130) counts the translation as active and calls translate_async, which
\* spawns the worker thread.
CallbackInvokeUpTo(t, content, offset, raises, cap) ==
    /\ UNCHANGED cb
    /\ IF cb = "stub"
       THEN UNCHANGED <<workVars, orchVars>>
       ELSE /\ ~raises
            /\ Len(wk) < cap
            /\ o_active' = o_active + 1
            /\ wk' = Append(wk, NewWorker(content, offset))
            /\ UNCHANGED <<queue, taken, o_shutdown, o_succ, o_fail, o_out, o_main>>

\* The callback, explored for MaxDispatch dispatches.
CallbackInvoke(t, content, offset, raises) ==
    CallbackInvokeUpTo(t, content, offset, raises, MaxDispatch)

\* The producer appends one character to the input file.
FileAppend ==
    /\ w_thread # "none"
    /\ Len(file) < MaxFileLen
    /\ \E c \in FileChars : file' = Append(file, c)
    /\ UNCHANGED <<wConfig, w_offset, w_acc, w_ready, w_ready_tokens, w_threshold,
                   w_state, w_shutdown, w_thread, th, w_ops, cb, w_failed>>
    /\ UNCHANGED notWatch

\* _monitor_loop, lines 267-275: leave when the shutdown event is set, else poll.
PollLoop ==
    /\ th[POLL].pc = "p_loop"
    /\ IF w_shutdown
       THEN /\ th' = [th EXCEPT ![POLL] = Returned(POLL, "exited")]
            /\ w_thread' = "exited"
       ELSE /\ th' = [th EXCEPT ![POLL] = [IdleFrame EXCEPT !.pc = "cat_stat",
                                                            !.ret = "p_loop"]]
            /\ UNCHANGED w_thread
    /\ UNCHANGED <<file, wConfig, w_offset, w_acc, w_ready, w_ready_tokens, w_threshold,
                   w_state, w_shutdown, w_ops, cb, w_failed>>
    /\ UNCHANGED notWatch

\* _check_and_trigger, line 290: stat the file.
CatStat(t) ==
    /\ th[t].pc = "cat_stat"
    /\ th' = [th EXCEPT ![t].size = ByteSize(file), ![t].pc = "cat_read"]
    /\ UNCHANGED <<file, wConfig, w_offset, w_acc, w_ready, w_ready_tokens, w_threshold,
                   w_state, w_shutdown, w_thread, w_ops, cb, w_failed>>
    /\ UNCHANGED notWatch

\* _check_and_trigger, lines 296-322: read the offset, return if nothing is
\* new, read the new content and choose the handler.  A failed read raises to
\* the caller, which logs it (lines 132, 270).
CatRead(t) ==
    /\ th[t].pc = "cat_read"
    /\ LET last == w_offset
           content == ReadText(file, last, th[t].size - last)
       IN  IF th[t].size <= last \/ content = DecodeError \/ content = <<>>
           THEN th' = [th EXCEPT ![t] = Returned(t, th[t].ret)]
           ELSE th' = [th EXCEPT ![t].last = last, ![t].content = content,
                                 ![t].size = IF ~w_auto /\ ~th[t].flush THEN 0 ELSE @,
                                 ![t].pc = IF th[t].flush /\ ~w_auto THEN "flush_acc"
                                           ELSE IF ~w_auto THEN "user"
                                           ELSE "auto"]
    /\ UNCHANGED <<file, wConfig, w_offset, w_acc, w_ready, w_ready_tokens, w_threshold,
                   w_state, w_shutdown, w_thread, w_ops, cb, w_failed>>
    /\ UNCHANGED notWatch

\* A readiness test that misses a count equal to the threshold.
ThresholdReachedLate(total) == total > w_threshold /\ ~w_ready

\* _handle_user_prompted_mode, line 358
ThresholdReached(total) == total >= w_threshold /\ ~w_ready

\* _handle_user_prompted_mode (under the offset lock).
UserHandle(t) ==
    /\ th[t].pc = "user"
    /\ Len(w_acc) + Len(th[t].content) <= MaxAcc
    /\ LET acc == w_acc \o th[t].content
           total == count_tokens(acc)
       IN  /\ w_acc' = acc
           /\ IF ThresholdReached(total)
              THEN w_ready' = TRUE /\ w_ready_tokens' = total
              ELSE UNCHANGED <<w_ready, w_ready_tokens>>
    /\ th' = [th EXCEPT ![t] = Returned(t, th[t].ret)]
    /\ UNCHANGED <<file, wConfig, w_offset, w_threshold,
                   w_state, w_shutdown, w_thread, w_ops, cb, w_failed>>
    /\ UNCHANGED notWatch

\* _handle_auto_translate_mode, lines 372-397: the threshold test and the
\* callback; a callback that raises ends the call with the offset untouched.
AutoHandleUpTo(t, cap) ==
    /\ th[t].pc = "auto"
    /\ IF should_translate(th[t].flush, count_tokens(th[t].content), w_min)
       THEN \E raises \in BOOLEAN :
              /\ CallbackInvokeUpTo(t, th[t].content, th[t].last, raises, cap)
              /\ th' = [th EXCEPT ![t] = AfterCallback(t, raises, "auto_set")]
              /\ w_failed' = IF t # POLL THEN w_failed
                             ELSE IF raises /\ th[t].last = w_offset
                             THEN [content |-> th[t].content, offset |-> th[t].last]
                             ELSE NOCALL
       ELSE /\ th' = [th EXCEPT ![t] = Returned(t, th[t].ret)]
            /\ UNCHANGED <<cb, w_failed, workVars, orchVars>>
    /\ UNCHANGED <<file, wConfig, w_offset, w_acc, w_ready, w_ready_tokens, w_threshold,
                   w_state, w_shutdown, w_thread, w_ops>>
    /\ UNCHANGED notWatchCb

\* The handler, explored for MaxDispatch dispatches.
AutoHandle(t) == AutoHandleUpTo(t, MaxDispatch)

\* The same handler where every thread may dispatch once.
AutoDispatch(t) == AutoHandleUpTo(t, Cardinality(Threads))

\* The ghost w_failed (the polling thread's last failed auto-mode call, made
\* from the offset the watcher still has) is dropped when the offset moves.
FailedAfter(newOffset) == IF newOffset = w_offset THEN w_failed ELSE NOCALL

\* The offset written by lines 399-400 and 339-340.
AdvanceTo(t) == th[t].size

\* _handle_auto_translate_mode, lines 399-400.
AutoSet(t) ==
    /\ th[t].pc = "auto_set"
    /\ w_offset' = AdvanceTo(t)
    /\ w_failed' = FailedAfter(AdvanceTo(t))
    /\ th' = [th EXCEPT ![t] = Saving(t, th[t].ret)]
    /\ UNCHANGED <<file, wConfig, w_acc, w_ready, w_ready_tokens, w_threshold,
                   w_state, w_shutdown, w_thread, w_ops, cb>>
    /\ UNCHANGED notWatch

\* _save_state, lines 434-439: the state is built under the offset lock.
SaveSnap(t) ==
    /\ th[t].pc = "save_snap"
    /\ th' = [th EXCEPT ![t].snap = w_offset, ![t].pc = "save_write"]
    /\ UNCHANGED <<file, wConfig, w_offset, w_acc, w_ready, w_ready_tokens, w_threshold,
                   w_state, w_shutdown, w_thread, w_ops, cb, w_failed>>
    /\ UNCHANGED notWatch

\* _save_state, lines 441-446: the state file is written, outside the lock.
SaveWrite(t) ==
    /\ th[t].pc = "save_write"
    /\ w_state' = StateFile(th[t].snap)
    /\ th' = [th EXCEPT ![t] = Returned(t, th[t].ret)]
    /\ UNCHANGED <<file, wConfig, w_offset, w_acc, w_ready, w_ready_tokens, w_threshold,
                   w_shutdown, w_thread, w_ops, cb, w_failed>>
    /\ UNCHANGED notWatch

\* _handle_flush_mode, lines 328-333 (under the offset lock).
FlushAcc(t) ==
    /\ th[t].pc = "flush_acc"
    /\ Len(w_acc) + Len(th[t].content) <= MaxAcc
    /\ LET acc == w_acc \o th[t].content
       IN  /\ w_acc' = acc
           /\ th' = [th EXCEPT ![t] =
                        IF acc # <<>> /\ count_tokens(acc) > 0
                        THEN [th[t] EXCEPT !.content = acc, !.pc = "flush_cb"]
                        ELSE Returned(t, th[t].ret)]
    /\ UNCHANGED <<file, wConfig, w_offset, w_ready, w_ready_tokens, w_threshold,
                   w_state, w_shutdown, w_thread, w_ops, cb, w_failed>>
    /\ UNCHANGED notWatch

\* _handle_flush_mode, lines 337-338 and 344-345: the callback.
FlushCb(t) ==
    /\ th[t].pc = "flush_cb"
    /\ \E raises \in BOOLEAN :
          /\ CallbackInvoke(t, th[t].content, th[t].last, raises)
          /\ th' = [th EXCEPT ![t] = AfterCallback(t, raises, "flush_set")]
    /\ UNCHANGED <<file, wConfig, w_offset, w_acc, w_ready, w_ready_tokens, w_threshold,
                   w_state, w_shutdown, w_thread, w_ops, w_failed>>
    /\ UNCHANGED notWatchCb

\* _handle_flush_mode, lines 339-342.
FlushSet(t) ==
    /\ th[t].pc = "flush_set"
    /\ w_offset' = AdvanceTo(t)
    /\ w_failed' = FailedAfter(AdvanceTo(t))
    /\ w_acc' = <<>>
    /\ w_ready' = FALSE
    /\ th' = [th EXCEPT ![t] = Saving(t, th[t].ret)]
    /\ UNCHANGED <<file, wConfig, w_ready_tokens, w_threshold,
                   w_state, w_shutdown, w_thread, w_ops, cb>>
    /\ UNCHANGED notWatch

\* A calling thread that can start an operation.  The calling threads are
\* interchangeable: the second is used only while the first is busy.
CallerFree(t) ==
    /\ t \in Callers
    /\ th[t].pc = "idle"
    /\ t = "c2" => th["c1"].pc # "idle"

\* stop(), lines 124-131: a caller starts stop(); the final flush begins.
StopBegin(t) ==
    /\ CallerFree(t)
    /\ w_ops < MaxOps
    /\ w_ops' = w_ops + 1
    /\ th' = [th EXCEPT ![t] =
                 IF w_thread = "none" THEN IdleFrame
                 ELSE [IdleFrame EXCEPT !.pc = "cat_stat", !.flush = TRUE,
                                        !.ret = "stop_set"]]
    /\ UNCHANGED <<file, wConfig, w_offset, w_acc, w_ready, w_ready_tokens, w_threshold,
                   w_state, w_shutdown, w_thread, cb, w_failed>>
    /\ UNCHANGED notWatch

\* stop(), line 135.
StopSet(t) ==
    /\ th[t].pc = "stop_set"
    /\ w_shutdown' = TRUE
    /\ th' = [th EXCEPT ![t].pc = "stop_join"]
    /\ UNCHANGED <<file, wConfig, w_offset, w_acc, w_ready, w_ready_tokens, w_threshold,
                   w_state, w_thread, w_ops, cb, w_failed>>
    /\ UNCHANGED notWatch

\* A join that waits for the polling thread without a timeout.
StopJoinWithoutTimeout(t) ==
    /\ th[t].pc = "stop_join"
    /\ w_thread = "exited"
    /\ th' = [th EXCEPT ![t] = Saving(t, "idle")]
    /\ UNCHANGED <<file, wConfig, w_offset, w_acc, w_ready, w_ready_tokens, w_threshold,
                   w_state, w_shutdown, w_thread, w_ops, cb, w_failed>>
    /\ UNCHANGED notWatch

\* stop(), lines 138-143: join returns because the polling thread ended, or
\* because the timeout passed while the thread was still inside a poll (a
\* thread waiting in the loop leaves it at once); the state is saved.
StopJoin(t) ==
    /\ th[t].pc = "stop_join"
    /\ w_thread = "exited" \/ th[POLL].pc # "p_loop"
    /\ th' = [th EXCEPT ![t] = Saving(t, "idle")]
    /\ UNCHANGED <<file, wConfig, w_offset, w_acc, w_ready, w_ready_tokens, w_threshold,
                   w_state, w_shutdown, w_thread, w_ops, cb, w_failed>>
    /\ UNCHANGED notWatch

\* A trigger that does not look at the ready flag.
TriggerAcceptedAlways == TRUE

\* trigger_translation_manual, line 189
TriggerAccepted == w_ready

\* trigger_translation_manual, lines 188-195: the caller's frame after the
\* locked block.
TrigFrame ==
    IF ~TriggerAccepted THEN IdleFrame
    ELSE [IdleFrame EXCEPT !.pc = "trig_cb", !.content = w_acc, !.last = w_offset]

\* trigger_translation_manual, lines 188-195 (under the offset lock): return
\* False when not ready, else snapshot the content and the offset.
TrigCheck(t) ==
    /\ CallerFree(t)
    /\ w_thread # "none"
    /\ w_ops < MaxOps
    /\ w_ops' = w_ops + 1
    /\ th' = [th EXCEPT ![t] =
                 TrigFrame]
    /\ UNCHANGED <<file, wConfig, w_offset, w_acc, w_ready, w_ready_tokens, w_threshold,
                   w_state, w_shutdown, w_thread, cb, w_failed>>
    /\ UNCHANGED notWatch

\* trigger_translation_manual, lines 198-207: the callback, outside the lock.
TrigCbUpTo(t, cap) ==
    /\ th[t].pc = "trig_cb"
    /\ \E raises \in BOOLEAN :
          /\ CallbackInvokeUpTo(t, th[t].content, th[t].last, raises, cap)
          /\ th' = [th EXCEPT ![t] = IF raises THEN IdleFrame
                                     ELSE [th[t] EXCEPT !.pc = "trig_update"]]
    /\ UNCHANGED <<file, wConfig, w_offset, w_acc, w_ready, w_ready_tokens, w_threshold,
                   w_state, w_shutdown, w_thread, w_ops, w_failed>>
    /\ UNCHANGED notWatchCb

TrigCb(t) == TrigCbUpTo(t, MaxDispatch)

\* The same call where MaxCalls dispatches are explored.
TrigDispatch(t) == TrigCbUpTo(t, MaxCalls)

\* A threshold that starts over after a trigger.
NextThresholdRestarted(threshold, minTokens) == minTokens

\* trigger_translation_manual, line 236
NextThreshold(threshold, minTokens) == threshold + minTokens

\* trigger_translation_manual, lines 212-217
OffsetAfterTrigger(offsetSnapshot, content) == offsetSnapshot + ByteSize(content)

\* trigger_translation_manual, lines 210-241 (under the offset lock).
TrigUpdate(t) ==
    /\ th[t].pc = "trig_update"
    /\ w_offset' = OffsetAfterTrigger(th[t].last, th[t].content)
    /\ w_failed' = FailedAfter(OffsetAfterTrigger(th[t].last, th[t].content))
    /\ w_acc' = IF StartsWith(w_acc, th[t].content)
                THEN DropPrefix(w_acc, th[t].content)
                ELSE <<>>
    /\ w_threshold' = NextThreshold(w_threshold, w_min)
    /\ w_ready' = FALSE
    /\ w_ready_tokens' = 0
    /\ th' = [th EXCEPT ![t] = Saving(t, "idle")]
    /\ UNCHANGED <<file, wConfig, w_state, w_shutdown, w_thread, w_ops, cb>>
    /\ UNCHANGED notWatch

\* auto_translate = True: polls and stop() translate, a manual trigger finds
\* nothing ready.
NextAuto ==
    \/ FileAppend
    \/ PollLoop
    \/ \E t \in Threads : CatStat(t)
    \/ \E t \in Threads : CatRead(t)
    \/ \E t \in Threads : AutoHandle(t)
    \/ \E t \in Threads : AutoSet(t)
    \/ \E t \in Threads : SaveSnap(t)
    \/ \E t \in Threads : SaveWrite(t)
    \/ \E t \in Callers : StopBegin(t)
    \/ \E t \in Callers : StopSet(t)
    \/ \E t \in Callers : StopJoin(t)
    \/ \E t \in Callers : TrigCheck(t)

\* A watcher is constructed over the files on disk, started, and polls.
NextRestart ==
    \/ Construct
    \/ Start
    \/ PollLoop
    \/ CatStat(POLL)
    \/ CatRead(POLL)
    \/ AutoHandle(POLL)
    \/ AutoSet(POLL)
    \/ SaveSnap(POLL)
    \/ SaveWrite(POLL)

\* auto_translate = False: polls accumulate, manual triggers and the flush of
\* stop() translate.
NextPrompt ==
    \/ FileAppend
    \/ PollLoop
    \/ \E t \in Threads : CatStat(t)
    \/ \E t \in Threads : CatRead(t)
    \/ \E t \in Threads : UserHandle(t)
    \/ \E t \in Threads : SaveSnap(t)
    \/ \E t \in Threads : SaveWrite(t)
    \/ \E t \in Threads : FlushAcc(t)
    \/ \E t \in Threads : FlushCb(t)
    \/ \E t \in Threads : FlushSet(t)
    \/ \E t \in Callers : StopBegin(t)
    \/ \E t \in Callers : StopSet(t)
    \/ \E t \in Callers : StopJoin(t)
    \/ \E t \in Callers : TrigCheck(t)
    \/ \E t \in Callers : TrigCb(t)
    \/ \E t \in Callers : TrigUpdate(t)

\* ================================================================
\* TranslationWorker: translate_async calls, the worker threads, the consumer
\* of the result queue
\* ================================================================
\* The contents handed to translate_async: nothing, one line, two lines (of
\* two tokens each).
WorkerContents ==
    {<<>>, LineOfTokens(2), LineOfTokens(2) \o LineOfTokens(2)}

\* Lines 105-107 of translation_worker.py.
LinesOfWorker(content) ==
    IF splitlines(content, <<>>) = <<>> THEN <<content>> ELSE splitlines(content, <<>>)

\* What the engine calls of one worker can do: one behaviour per planned
\* chunk (none when the planner raised).
WorkerScriptsOf(content, mtl, planRaises, behaviours) ==
    IF planRaises THEN {<<>>}
    ELSE [1..Len(chunk_generator(LinesOfWorker(content), mtl)) -> behaviours]

WorkerScripts(content, mtl, planRaises) ==
    WorkerScriptsOf(content, mtl, planRaises, WorkerBehaviours)

\* translate_async(content, offset): spawns the thread and returns.
TranslateAsync ==
    /\ Len(wk) < MaxCalls
    /\ \E content \in WorkerContents, offset \in {0, MaxFileLen} :
          wk' = Append(wk, NewWorker(content, offset))
    /\ UNCHANGED <<queue, taken>>
    /\ UNCHANGED notWork

\* _translate_worker from its start to the put it is about to make, for a
\* max_token_length of the translator among `limits`, any behaviour of the
\* planner and of each engine call.
WorkerRunWith(w, limits, behaviours) ==
    /\ w \in 1..Len(wk)
    /\ wk[w].pc = "start"
    /\ \E mtl \in limits, planRaises \in BOOLEAN :
          \E script \in WorkerScriptsOf(wk[w].content, mtl, planRaises, behaviours) :
             LET r == _translate_worker(w, wk[w].content, wk[w].offset, mtl,
                                        planRaises, script)
             IN  wk' = [wk EXCEPT ![w] =
                           IF r.raised THEN [@ EXCEPT !.pc = "raised", !.content = <<>>]
                           ELSE [@ EXCEPT !.pc = "put", !.content = <<>>,
                                          !.result = r.result]]
    /\ UNCHANGED <<queue, taken>>
    /\ UNCHANGED notWork

\* _translate_worker for every behaviour of the engine.
WorkerRun(w, limits) == WorkerRunWith(w, limits, WorkerBehaviours)

\* _translate_worker with an engine that answers every call.
WorkerRunAnswered(w) == WorkerRunWith(w, {MaxMTL}, {"text"})

\* result_queue.put(result): blocks while the queue is full.
WorkerPut(w) ==
    /\ w \in 1..Len(wk)
    /\ wk[w].pc = "put"
    /\ Len(queue) < QueueCap
    /\ queue' = Append(queue, wk[w].result)
    /\ wk' = [wk EXCEPT ![w] = [@ EXCEPT !.pc = "done", !.result = NoResult]]
    /\ UNCHANGED taken
    /\ UNCHANGED notWork

\* The ghost record of the results taken from the queue: per call, the
\* start_offset of each result taken.
Taken(result) == [taken EXCEPT ![result.id] = Append(@, result.start_offset)]

\* The owner of the queue takes a result.
ConsumerGet ==
    /\ queue # <<>>
    /\ queue' = Tail(queue)
    /\ taken' = Taken(Head(queue))
    /\ UNCHANGED wk
    /\ UNCHANGED notWork

NextWork ==
    \/ TranslateAsync
    \/ \E w \in WorkerIds : WorkerRun(w, {1, MaxMTL})
    \/ \E w \in WorkerIds : WorkerPut(w)
    \/ ConsumerGet

\* ================================================================
\* ConcurrentTranslationOrchestrator in auto mode: the thread inside run(), a
\* thread calling stop(), the watcher's polling thread, the worker threads
\* ================================================================
MAIN == "c2"
STOPPER == "c1"

\* run() up to the start of _process_results: watcher and worker are built,
\* the watcher is started with the orchestrator's callback.
OrchInit ==
    /\ WatchInit(TRUE, "orchestrator")
    /\ WorkInit
    /\ o_shutdown = FALSE
    /\ o_active = 0
    /\ o_succ = 0
    /\ o_fail = 0
    /\ o_out = <<>>
    /\ o_main = "loop"

\* FileWatcher.update_offset_after_completion as the specification describes
\* it: the offset is moved by the consumer in user-prompted mode only.
update_offset_after_completion(auto, current, newOffset) ==
    IF auto THEN current ELSE newOffset

\* A counter that is lowered only for a result whose text was written.
ActiveAfterWrittenResult(active, result) ==
    IF result.translated_text # <<>> THEN active - 1 ELSE active

\* _handle_result, lines 324-326
ActiveAfterResult(active, result) == active - 1

\* An output file that receives each new block at its front.
OutputWithBlockFirst(out, result) ==
    IF ~result.text_is_none /\ result.translated_text # <<>>
    THEN result.translated_text \o SEPARATOR \o out
    ELSE out

\* _handle_result, lines 304-308: a non-empty translated_text is appended to
\* the output file, followed by "\n\n".
OutputAfter(out, result) ==
    IF ~result.text_is_none /\ result.translated_text # <<>>
    THEN out \o result.translated_text \o SEPARATOR
    ELSE out

\* _handle_result for the result at the head of the queue, which the caller
\* has just taken.
HandleResult ==
    LET result == Head(queue)
        written == ~result.text_is_none /\ result.translated_text # <<>>
    IN  /\ queue' = Tail(queue)
        /\ taken' = Taken(result)
        /\ o_succ' = o_succ + result.successes
        /\ o_fail' = o_fail + result.failures
        /\ o_out' = OutputAfter(o_out, result)
        /\ w_offset' = IF written /\ result.successes > 0
                        THEN update_offset_after_completion(w_auto, w_offset,
                                 result.start_offset + result.content_length_bytes)
                        ELSE w_offset
        /\ o_active' = ActiveAfterResult(o_active, result)
        /\ UNCHANGED <<file, wConfig, w_acc, w_ready, w_ready_tokens, w_threshold,
                       w_state, w_shutdown, w_thread, w_ops, cb, w_failed, wk,
                       o_shutdown>>

\* Orchestrator.stop(): the flag is set and FileWatcher.stop() begins.
OrchStop ==
    /\ th[STOPPER].pc = "idle"
    /\ w_ops = 0
    /\ w_ops' = 1
    /\ o_shutdown' = TRUE
    /\ th' = [th EXCEPT ![STOPPER] =
                 [IdleFrame EXCEPT !.pc = "cat_stat", !.flush = TRUE,
                                   !.ret = "stop_set"]]
    /\ UNCHANGED <<file, wConfig, w_offset, w_acc, w_ready, w_ready_tokens, w_threshold,
                   w_state, w_shutdown, w_thread, cb, w_failed>>
    /\ UNCHANGED <<workVars, o_active, o_succ, o_fail, o_out, o_main>>
    /\ UNCHANGED notOrch

\* _process_results, lines 271-275: a result arrives within the timeout of
\* get and is handled.
RunGet ==
    /\ o_main = "loop"
    /\ queue # <<>>
    /\ HandleResult
    /\ UNCHANGED <<th, o_main>>
    /\ UNCHANGED notOrch

\* _process_results, line 271: the loop ends once the flag is seen.
RunSeeShutdown ==
    /\ o_main = "loop"
    /\ o_shutdown
    /\ o_main' = "drain"
    /\ UNCHANGED <<watchVars, workVars, o_shutdown, o_active, o_succ, o_fail, o_out>>
    /\ UNCHANGED notOrch

\* _process_results, lines 282-287: get_nowait hands a result, which is
\* handled.
RunDrain ==
    /\ o_main = "drain"
    /\ queue # <<>>
    /\ HandleResult
    /\ UNCHANGED <<th, o_main>>
    /\ UNCHANGED notOrch

\* _process_results, line 286, and run, lines 146-149: get_nowait finds the
\* queue empty, the drain ends and the cleanup calls FileWatcher.stop().
RunCleanup ==
    /\ o_main = "drain"
    /\ queue = <<>>
    /\ o_main' = "finally"
    /\ th' = [th EXCEPT ![MAIN] =
                 [IdleFrame EXCEPT !.pc = "cat_stat", !.flush = TRUE,
                                   !.ret = "stop_set"]]
    /\ UNCHANGED <<file, wConfig, w_offset, w_acc, w_ready, w_ready_tokens, w_threshold,
                   w_state, w_shutdown, w_thread, w_ops, cb, w_failed>>
    /\ UNCHANGED <<workVars, o_shutdown, o_active, o_succ, o_fail, o_out>>
    /\ UNCHANGED notOrch

\* run, lines 151-169: FileWatcher.stop() has returned; the metrics are
\* returned.
RunReturn ==
    /\ o_main = "finally"
    /\ th[MAIN].pc = "idle"
    /\ o_main' = "returned"
    /\ UNCHANGED <<watchVars, workVars, o_shutdown, o_active, o_succ, o_fail, o_out>>
    /\ UNCHANGED notOrch

\* ================================================================
\* The orchestrator's callback, the workers and the consumer loop, with the
\* watcher's calls of the callback taken as inputs
\* ================================================================
\* translation_callback(content, offset), lines 125-130, for any content and
\* offset the watcher hands over.
CallbackDirect ==
    /\ Len(wk) < MaxCalls
    /\ \E content \in WorkerContents, offset \in {0, MaxFileLen} :
          wk' = Append(wk, NewWorker(content, offset))
    /\ o_active' = o_active + 1
    /\ UNCHANGED <<queue, taken, o_shutdown, o_succ, o_fail, o_out, o_main>>
    /\ UNCHANGED watchVars
    /\ UNCHANGED notOrch

NextConsume ==
    \/ CallbackDirect
    \/ \E w \in WorkerIds : WorkerRun(w, {MaxMTL})
    \/ \E w \in WorkerIds : WorkerPut(w)
    \/ RunGet

\* ================================================================
\* ConcurrentTranslationOrchestrator in user-prompted mode while run() is in
\* its consumer loop: the polling thread accumulates, threads of the menu
\* call trigger_translation_manual(), the workers translate, the thread
\* inside run() handles the results
\* ================================================================
OrchPromptInit ==
    /\ WatchInit(FALSE, "orchestrator")
    /\ WorkInit
    /\ o_shutdown = FALSE
    /\ o_active = 0
    /\ o_succ = 0
    /\ o_fail = 0
    /\ o_out = <<>>
    /\ o_main = "loop"

\* The input files a run can find at its start: the texts of at most
\* MaxFileLen characters.
FilesAtStart == UNION {[1..n -> FileChars] : n \in 0..MaxFileLen}

\* run() on a file that already holds text and is not appended to.
OrchManualInit ==
    /\ WatchStart(FilesAtStart, FALSE, "orchestrator")
    /\ WorkInit
    /\ o_shutdown = FALSE
    /\ o_active = 0
    /\ o_succ = 0
    /\ o_fail = 0
    /\ o_out = <<>>
    /\ o_main = "loop"

\* A test that never sees a translation in progress.
is_translating_never == FALSE

\* is_translating, lines 244-245
is_translating == o_active > 0

\* Orchestrator.trigger_translation_manual, lines 225-229: refuse while a
\* translation is active, else call the watcher.
OrchTrigger(t) ==
    /\ CallerFree(t)
    /\ w_ops < MaxOps
    /\ w_ops' = w_ops + 1
    /\ th' = [th EXCEPT ![t] = [IdleFrame EXCEPT !.pc = IF is_translating
                                                        THEN "o_rejected"
                                                        ELSE "o_trig"]]
    /\ UNCHANGED <<file, wConfig, w_offset, w_acc, w_ready, w_ready_tokens, w_threshold,
                   w_state, w_shutdown, w_thread, cb, w_failed>>
    /\ UNCHANGED notWatch

\* Orchestrator.trigger_translation_manual, lines 226-227: return False.
OrchRejected(t) ==
    /\ th[t].pc = "o_rejected"
    /\ th' = [th EXCEPT ![t] = IdleFrame]
    /\ UNCHANGED <<file, wConfig, w_offset, w_acc, w_ready, w_ready_tokens, w_threshold,
                   w_state, w_shutdown, w_thread, w_ops, cb, w_failed>>
    /\ UNCHANGED notWatch

\* Orchestrator.trigger_translation_manual, lines 229-230: the call of
\* FileWatcher.trigger_translation_manual, up to the end of its locked block.
OrchTrigCall(t) ==
    /\ th[t].pc = "o_trig"
    /\ th' = [th EXCEPT ![t] = TrigFrame]
    /\ UNCHANGED <<file, wConfig, w_offset, w_acc, w_ready, w_ready_tokens, w_threshold,
                   w_state, w_shutdown, w_thread, w_ops, cb, w_failed>>
    /\ UNCHANGED notWatch

NextOrchPrompt ==
    \/ FileAppend
    \/ PollLoop
    \/ CatStat(POLL)
    \/ CatRead(POLL)
    \/ UserHandle(POLL)
    \/ \E t \in Callers : OrchTrigger(t)
    \/ \E t \in Callers : OrchRejected(t)
    \/ \E t \in Callers : OrchTrigCall(t)
    \/ \E t \in Callers : TrigCb(t)
    \/ \E t \in Callers : TrigUpdate(t)
    \/ \E t \in Callers : SaveSnap(t)
    \/ \E t \in Callers : SaveWrite(t)
    \/ RunGet
    \/ \E w \in WorkerIds : WorkerRun(w, {MaxMTL})
    \/ \E w \in WorkerIds : WorkerPut(w)

\* The same threads while nothing is appended to the input file.
NextOrchManual ==
    \/ PollLoop
    \/ CatStat(POLL)
    \/ CatRead(POLL)
    \/ UserHandle(POLL)
    \/ \E t \in Callers : OrchTrigger(t)
    \/ \E t \in Callers : OrchRejected(t)
    \/ \E t \in Callers : OrchTrigCall(t)
    \/ \E t \in Callers : TrigCb(t)
    \/ \E t \in Callers : TrigUpdate(t)
    \/ \E t \in Callers : SaveSnap(t)
    \/ \E t \in Callers : SaveWrite(t)
    \/ RunGet
    \/ \E w \in WorkerIds : WorkerRun(w, {MaxMTL})
    \/ \E w \in WorkerIds : WorkerPut(w)

\* The menu threads, the polls, the workers and the consumer, with as many
\* dispatches as translate_async calls are explored for the worker.
NextOrchTriggers ==
    \/ PollLoop
    \/ CatStat(POLL)
    \/ CatRead(POLL)
    \/ UserHandle(POLL)
    \/ \E t \in Callers : OrchTrigger(t)
    \/ \E t \in Callers : OrchRejected(t)
    \/ \E t \in Callers : OrchTrigCall(t)
    \/ \E t \in Callers : TrigDispatch(t)
    \/ \E t \in Callers : TrigUpdate(t)
    \/ \E t \in Callers : SaveSnap(t)
    \/ \E t \in Callers : SaveWrite(t)
    \/ RunGet
    \/ \E w \in WorkerIds : WorkerRun(w, {MaxMTL})
    \/ \E w \in WorkerIds : WorkerPut(w)

NextOrch ==
    \/ FileAppend
    \/ PollLoop
    \/ \E t \in Threads : CatStat(t)
    \/ \E t \in Threads : CatRead(t)
    \/ \E t \in Threads : AutoHandle(t)
    \/ \E t \in Threads : AutoSet(t)
    \/ \E t \in Threads : SaveSnap(t)
    \/ \E t \in Threads : SaveWrite(t)
    \/ \E t \in Callers : StopSet(t)
    \/ \E t \in Callers : StopJoin(t)
    \/ OrchStop
    \/ RunGet
    \/ RunSeeShutdown
    \/ RunDrain
    \/ RunCleanup
    \/ RunReturn
    \/ \E w \in WorkerIds : WorkerRun(w, {MaxMTL})
    \/ \E w \in WorkerIds : WorkerPut(w)

\* ================================================================
\* The lock discipline of FileWatcher and of the orchestrator
\* ================================================================
OFFSET_LOCK == "offset"
ACTIVE_LOCK == "active"
METRICS_LOCK == "metrics"
Locks == {OFFSET_LOCK, ACTIVE_LOCK, METRICS_LOCK}

\* The polling thread, the thread of the menu (manual trigger, stop, status),
\* the thread inside run(), a worker thread.
LThreads == {"poll", "menu", "main", "worker"}

\* The statements of an operation that matter for the locks: a with-block
\* begins and ends, a call that can block is entered and left.
Acq(l) == [k |-> "acq", x |-> l]
Rel(l) == [k |-> "rel", x |-> l]
Enter(op) == [k |-> "enter", x |-> op]
Leave(op) == [k |-> "leave", x |-> op]

\* A with-block whose body reads and writes fields only.
Locked(l) == <<Acq(l), Rel(l)>>

\* translation_callback, lines 125-130: the counter is raised under the
\* lock; translate_async, which starts the worker thread, comes after it.
CallbackProgram == <<Enter("callback")>> \o Locked(ACTIVE_LOCK) \o <<Leave("callback")>>

\* _save_state: the state is built under the lock, the file written after.
SaveProgram == Locked(OFFSET_LOCK)

\* _check_and_trigger, lines 296-297.
ReadOffsetProgram == Locked(OFFSET_LOCK)

\* _handle_auto_translate_mode: below the threshold; a callback that raises;
\* a callback that returns, the offset set under the lock, the state saved.
AutoPrograms ==
    { ReadOffsetProgram,
      ReadOffsetProgram \o CallbackProgram,
      ReadOffsetProgram \o CallbackProgram \o Locked(OFFSET_LOCK) \o SaveProgram }

\* _handle_user_prompted_mode: everything under the lock.
UserPrograms == { ReadOffsetProgram, ReadOffsetProgram \o Locked(OFFSET_LOCK) }

\* _handle_flush_mode: accumulate under the lock, callback, update under the
\* lock, save.
FlushPrograms ==
    { ReadOffsetProgram,
      ReadOffsetProgram \o Locked(OFFSET_LOCK),
      ReadOffsetProgram \o Locked(OFFSET_LOCK) \o CallbackProgram,
      ReadOffsetProgram \o Locked(OFFSET_LOCK) \o CallbackProgram
          \o Locked(OFFSET_LOCK) \o SaveProgram }

\* _check_and_trigger(flush)
CheckPrograms(flush) ==
    IF w_auto THEN AutoPrograms
    ELSE IF flush THEN FlushPrograms
    ELSE UserPrograms

\* stop(): the flush, the event, the join, the save.
StopPrograms ==
    { p \o <<Enter("join"), Leave("join")>> \o SaveProgram : p \in CheckPrograms(TRUE) }

\* A manual trigger that calls the callback before it leaves its first
\* with-block.
TriggerProgramsCallbackLocked ==
    { Locked(OFFSET_LOCK),
      <<Acq(OFFSET_LOCK)>> \o CallbackProgram \o <<Rel(OFFSET_LOCK)>>,
      <<Acq(OFFSET_LOCK)>> \o CallbackProgram \o <<Rel(OFFSET_LOCK)>>
          \o Locked(OFFSET_LOCK) \o SaveProgram }

\* FileWatcher.trigger_translation_manual: not ready (return inside the
\* with-block); snapshot under the lock, callback that raises; snapshot,
\* callback, update under the lock, save.
TriggerPrograms ==
    { Locked(OFFSET_LOCK),
      Locked(OFFSET_LOCK) \o CallbackProgram,
      Locked(OFFSET_LOCK) \o CallbackProgram \o Locked(OFFSET_LOCK) \o SaveProgram }

\* The orchestrator's trigger_translation_manual: is_translating() under the
\* active-translations lock, then the watcher's trigger.
OrchTriggerPrograms ==
    { Locked(ACTIVE_LOCK) } \cup { Locked(ACTIVE_LOCK) \o p : p \in TriggerPrograms }

\* is_translation_ready, get_last_offset, get_current_threshold; get_metrics.
StatusPrograms == { Locked(OFFSET_LOCK), Locked(METRICS_LOCK) }

\* _translate_worker: the engine call of a chunk, then result_queue.put.
WorkerProgram == <<Enter("engine"), Leave("engine"), Enter("put"), Leave("put")>>

\* FileWatcher.update_offset_after_completion as the specification describes
\* the watcher's locks: the offset is written under the offset lock.
UpdateOffsetProgram == Locked(OFFSET_LOCK)

\* _process_results and _handle_result: a get that times out; a result
\* handled without and with the offset update.
ConsumerPrograms ==
    { <<Enter("get"), Leave("get")>>,
      <<Enter("get"), Leave("get")>> \o Locked(METRICS_LOCK) \o Locked(ACTIVE_LOCK),
      <<Enter("get"), Leave("get")>> \o Locked(METRICS_LOCK) \o UpdateOffsetProgram
          \o Locked(ACTIVE_LOCK) }

\* The operations each thread performs.
ProgramsOf(t) ==
    CASE t = "poll" -> CheckPrograms(FALSE)
      [] t = "menu" -> OrchTriggerPrograms \cup StopPrograms \cup StatusPrograms
      [] t = "main" -> ConsumerPrograms \cup StopPrograms
      [] OTHER -> {WorkerProgram}

\* No thread is inside an operation.
LockInit ==
    /\ lk_held = [t \in LThreads |-> {}]
    /\ lk_todo = [t \in LThreads |-> <<>>]
    /\ lk_in = [t \in LThreads |-> "none"]

\* The watcher of an orchestrator, in either mode.
LockWatchInit == \E auto \in BOOLEAN : WatchInit(auto, "orchestrator")

\* A thread begins one of its operations.
LockBegin(t) ==
    /\ lk_todo[t] = <<>>
    /\ \E p \in ProgramsOf(t) : lk_todo' = [lk_todo EXCEPT ![t] = p]
    /\ UNCHANGED <<lk_held, lk_in>>
    /\ UNCHANGED notLocks

\* A thread executes its next statement.  threading.Lock is not reentrant:
\* acquire waits while any thread, the caller included, holds the lock.
LockStep(t) ==
    /\ lk_todo[t] # <<>>
    /\ LET s == Head(lk_todo[t])
       IN  /\ s.k = "acq" => \A u \in LThreads : s.x \notin lk_held[u]
           /\ lk_held' = [lk_held EXCEPT ![t] =
                             IF s.k = "acq" THEN @ \cup {s.x}
                             ELSE IF s.k = "rel" THEN @ \ {s.x}
                             ELSE @]
           /\ lk_in' = [lk_in EXCEPT ![t] =
                           IF s.k = "enter" /\ @ = "none" THEN s.x
                           ELSE IF s.k = "leave" /\ @ = s.x THEN "none"
                           ELSE @]
    /\ lk_todo' = [lk_todo EXCEPT ![t] = Tail(@)]
    /\ UNCHANGED notLocks

NextLocks ==
    \/ \E t \in LThreads : LockBegin(t)
    \/ \E t \in LThreads : LockStep(t)

\* ================================================================
\* TokenCounter.__new__ called by several threads
\* ================================================================
CtorThreads == 1..MaxCtorCalls

\* Each thread is about to call TokenCounter(); no instance exists.
CounterInit ==
    /\ tc_instance = 0 /\ tc_created = 0 /\ tc_loads = 0 /\ tc_lock = 0
    /\ tc_pc = [t \in CtorThreads |-> "check"]
    /\ tc_ret = [t \in CtorThreads |-> 0]

CounterIdle ==
    /\ tc_instance = 0 /\ tc_created = 0 /\ tc_loads = 0 /\ tc_lock = 0
    /\ tc_pc = [t \in CtorThreads |-> "none"]
    /\ tc_ret = [t \in CtorThreads |-> 0]

\* Line 36: the first test, outside the lock.
CtorCheck(t) ==
    /\ tc_pc[t] = "check"
    /\ tc_pc' = [tc_pc EXCEPT ![t] = IF tc_instance = 0 THEN "acquire" ELSE "return"]
    /\ UNCHANGED <<tc_instance, tc_created, tc_loads, tc_lock, tc_ret>>
    /\ UNCHANGED notCounter

\* Line 37: with cls._lock.
CtorAcquire(t) ==
    /\ tc_pc[t] = "acquire"
    /\ tc_lock = 0
    /\ tc_lock' = t
    /\ tc_pc' = [tc_pc EXCEPT ![t] = "locked"]
    /\ UNCHANGED <<tc_instance, tc_created, tc_loads, tc_ret>>
    /\ UNCHANGED notCounter

\* A second test that always finds no instance.
NoInstanceAssumed == TRUE

\* Line 39: the second test, inside the lock.
NoInstanceInsideLock == tc_instance = 0

CtorCheckLocked(t) ==
    /\ tc_pc[t] = "locked"
    /\ tc_pc' = [tc_pc EXCEPT ![t] = IF NoInstanceInsideLock THEN "new" ELSE "release"]
    /\ UNCHANGED <<tc_instance, tc_created, tc_loads, tc_lock, tc_ret>>
    /\ UNCHANGED notCounter

\* Line 40: cls._instance = super().__new__(cls), a new object.
CtorNew(t) ==
    /\ tc_pc[t] = "new"
    /\ tc_created' = tc_created + 1
    /\ tc_instance' = tc_created + 1
    /\ tc_pc' = [tc_pc EXCEPT ![t] = "load"]
    /\ UNCHANGED <<tc_loads, tc_lock, tc_ret>>
    /\ UNCHANGED notCounter

\* Line 42: cls._encoding = tiktoken.get_encoding("cl100k_base").
CtorLoad(t) ==
    /\ tc_pc[t] = "load"
    /\ tc_loads' = tc_loads + 1
    /\ tc_pc' = [tc_pc EXCEPT ![t] = "release"]
    /\ UNCHANGED <<tc_instance, tc_created, tc_lock, tc_ret>>
    /\ UNCHANGED notCounter

\* The end of the with-block.
CtorRelease(t) ==
    /\ tc_pc[t] = "release"
    /\ tc_lock' = 0
    /\ tc_pc' = [tc_pc EXCEPT ![t] = "return"]
    /\ UNCHANGED <<tc_instance, tc_created, tc_loads, tc_ret>>
    /\ UNCHANGED notCounter

\* Line 43: return cls._instance.
CtorReturn(t) ==
    /\ tc_pc[t] = "return"
    /\ tc_ret' = [tc_ret EXCEPT ![t] = tc_instance]
    /\ tc_pc' = [tc_pc EXCEPT ![t] = "done"]
    /\ UNCHANGED <<tc_instance, tc_created, tc_loads, tc_lock>>
    /\ UNCHANGED notCounter

NextCounter ==
    \/ \E t \in CtorThreads : CtorCheck(t)
    \/ \E t \in CtorThreads : CtorAcquire(t)
    \/ \E t \in CtorThreads : CtorCheckLocked(t)
    \/ \E t \in CtorThreads : CtorNew(t)
    \/ \E t \in CtorThreads : CtorLoad(t)
    \/ \E t \in CtorThreads : CtorRelease(t)
    \/ \E t \in CtorThreads : CtorReturn(t)

\* ------------------------------------------------------- specifications
InitChunk == ChunkInit /\ RetryIdle /\ TransIdle /\ WatchIdle /\ WorkIdle /\ OrchIdle /\ LockInit /\ CounterIdle
InitRetry == RetryInit /\ ChunkIdle /\ TransIdle /\ WatchIdle /\ WorkIdle /\ OrchIdle /\ LockInit /\ CounterIdle
InitTrans == TransInit /\ ChunkIdle /\ RetryIdle /\ WatchIdle /\ WorkIdle /\ OrchIdle /\ LockInit /\ CounterIdle
InitAuto == WatchInit(TRUE, "stub") /\ ChunkIdle /\ RetryIdle /\ TransIdle /\ WorkIdle /\ OrchIdle /\ LockInit /\ CounterIdle
InitPrompt == WatchInit(FALSE, "stub") /\ ChunkIdle /\ RetryIdle /\ TransIdle /\ WorkIdle /\ OrchIdle /\ LockInit /\ CounterIdle
InitWork == WorkInit /\ ChunkIdle /\ RetryIdle /\ TransIdle /\ WatchIdle /\ OrchIdle /\ LockInit /\ CounterIdle
InitOrch == OrchInit /\ ChunkIdle /\ RetryIdle /\ TransIdle /\ LockInit /\ CounterIdle
InitOrchPrompt == OrchPromptInit /\ ChunkIdle /\ RetryIdle /\ TransIdle /\ LockInit /\ CounterIdle
InitOrchManual == OrchManualInit /\ ChunkIdle /\ RetryIdle /\ TransIdle /\ LockInit /\ CounterIdle
InitRestart == RestartInit /\ ChunkIdle /\ RetryIdle /\ TransIdle /\ WorkIdle /\ OrchIdle /\ LockInit /\ CounterIdle
InitLocks == LockInit /\ LockWatchInit /\ ChunkIdle /\ RetryIdle /\ TransIdle /\ WorkIdle /\ OrchIdle /\ CounterIdle
InitCounter == CounterInit /\ ChunkIdle /\ RetryIdle /\ TransIdle /\ WatchIdle /\ WorkIdle /\ OrchIdle /\ LockInit

\* The files of a shutdown: nothing to read, a text below the threshold of
\* the polls (only a flush translates it), a text that reaches it.
ShutdownFiles == {Repeat("k", n) : n \in {0, MinTokens - 1, MinTokens}}

\* run() in auto mode on a file that already holds text and is not appended
\* to; stop() is called at any moment.
OrchFixedInit ==
    /\ WatchStart(ShutdownFiles, TRUE, "orchestrator")
    /\ w_state = ABSENT
    /\ WorkInit
    /\ o_shutdown = FALSE
    /\ o_active = 0
    /\ o_succ = 0
    /\ o_fail = 0
    /\ o_out = <<>>
    /\ o_main = "loop"

NextShutdown ==
    \/ PollLoop
    \/ \E t \in Threads : CatStat(t)
    \/ \E t \in Threads : CatRead(t)
    \/ \E t \in Threads : AutoDispatch(t)
    \/ \E t \in Threads : AutoSet(t)
    \/ \E t \in Threads : SaveSnap(t)
    \/ \E t \in Threads : SaveWrite(t)
    \/ \E t \in Callers : StopSet(t)
    \/ \E t \in Callers : StopJoin(t)
    \/ OrchStop
    \/ RunGet
    \/ RunSeeShutdown
    \/ RunDrain
    \/ RunCleanup
    \/ RunReturn
    \/ \E w \in WorkerIds : WorkerRunAnswered(w)
    \/ \E w \in WorkerIds : WorkerPut(w)

\* The steps of the thread that executes run(): the consumer loop, the drain
\* and the FileWatcher.stop() of the cleanup.  None of them waits without a
\* timeout: get(timeout=1.0), get_nowait(), join(timeout=10.0).
MainStep ==
    \/ RunGet
    \/ RunSeeShutdown
    \/ RunDrain
    \/ RunCleanup
    \/ RunReturn
    \/ CatStat(MAIN)
    \/ CatRead(MAIN)
    \/ AutoDispatch(MAIN)
    \/ AutoSet(MAIN)
    \/ StopSet(MAIN)
    \/ StopJoin(MAIN)
    \/ SaveSnap(MAIN)
    \/ SaveWrite(MAIN)

InitShutdown == OrchFixedInit /\ ChunkIdle /\ RetryIdle /\ TransIdle /\ LockInit /\ CounterIdle

SpecChunk == InitChunk /\ [][GenerateChunks]_vars
SpecRetry == InitRetry /\ [][Attempt]_vars
SpecTrans == InitTrans /\ [][NextTrans]_vars
SpecAuto == InitAuto /\ [][NextAuto]_vars
SpecPrompt == InitPrompt /\ [][NextPrompt]_vars
SpecWork == InitWork /\ [][NextWork]_vars
SpecOrch == InitOrch /\ [][NextOrch]_vars
SpecConsume == InitOrch /\ [][NextConsume]_vars
SpecOrchPrompt == InitOrchPrompt /\ [][NextOrchPrompt]_vars
SpecOrchManual == InitOrchManual /\ [][NextOrchManual]_vars
SpecOrchTriggers == InitOrchManual /\ [][NextOrchTriggers]_vars
SpecRestart == InitRestart /\ [][NextRestart]_vars
SpecLocks == InitLocks /\ [][NextLocks]_vars
SpecCounter == InitCounter /\ [][NextCounter]_vars
\* The main thread runs whenever it can; a polling thread waiting on the
\* shutdown event wakes up.  Nothing is assumed of the stopper, the workers or
\* a polling thread inside a poll.
SpecShutdown ==
    InitShutdown /\ [][NextShutdown]_vars /\ WF_vars(MainStep) /\ WF_vars(PollLoop)

\* ---------------------------------------------------- claims on translate()
\* The successful chunks' translations in increasing chunk-index order, each
\* followed by the separator.
RECURSIVE InIndexOrder(_)
InIndexOrder(i) ==
    IF i > Len(t_chunks) THEN <<>>
    ELSE (IF t_outcome[i] = "text" THEN Translated(t_chunks[i][2]) \o SEPARATOR ELSE <<>>)
         \o InIndexOrder(i + 1)

\* The order in which the parallel run stored its results.
StoredOrder == [k \in 1..Len(p_acc.results) |-> p_acc.results[k][1]]

\* C1: whatever the order in which the chunk translations complete and are
\* collected, the file written by the parallel run lists the successfully
\* translated chunks in increasing chunk-index order.
C1_ParallelOrder ==
    p_pc = "done" => p_out = InIndexOrder(1)

\* C1 witness: the parallel run wrote its file after storing the result of a
\* later chunk before that of an earlier one.
C1_Witness ==
    /\ p_pc = "done"
    /\ \E k \in 1..(Len(StoredOrder) - 1) : StoredOrder[k] > StoredOrder[k + 1]

\* C2: when both runs have written their file (the stub returns a text or
\* None for every chunk, as _translate_chunk does), the two files are equal,
\* for every completion order of the parallel run.
C2_SeqParIdentical ==
    (s_pc = "done" /\ p_pc = "done") => s_out = p_out

\* C2 witness: both files are written, a chunk failed, two chunks succeeded
\* and the parallel run collected them out of order.
C2_Witness ==
    /\ s_pc = "done"
    /\ p_pc = "done"
    /\ s_acc.failures >= 1
    /\ s_acc.successes >= 2
    /\ \E k \in 1..(Len(StoredOrder) - 1) : StoredOrder[k] > StoredOrder[k + 1]

\* ------------------------------------------- claims on _translate_chunk
\* The number of leading transient failures of the scripted engine.
RECURSIVE LeadingErrors(_)
LeadingErrors(script) ==
    IF script # <<>> /\ Head(script) = "error"
    THEN 1 + LeadingErrors(Tail(script)) ELSE 0

\* The engine fails transiently exactly k times and then succeeds.
FailsThenSucceeds(k) ==
    /\ LeadingErrors(r_script) = k
    /\ k < Len(r_script)
    /\ r_script[k + 1] = "text"

\* C5: with an engine that fails transiently exactly k times and then succeeds,
\* _translate_chunk returns the success value after exactly k+1 invocations when
\* k <= max_retries, and None after exactly max_retries+1 invocations when
\* k > max_retries (an always-failing engine included).
C5_RetryDeterminism ==
    r_st.pc = "returned" =>
        LET k == LeadingErrors(r_script)
        IN  /\ (FailsThenSucceeds(k) /\ k <= r_max_retries) =>
                  (r_st.result = Translated(ChunkText) /\ r_st.calls = k + 1)
            /\ k > r_max_retries =>
                  (r_st.result = NULL /\ r_st.calls = r_max_retries + 1)

\* C5 witness: max_retries = 1 and an always-transient engine: None after
\* exactly two invocations.
C5_Witness ==
    /\ r_st.pc = "returned"
    /\ r_max_retries = 1
    /\ LeadingErrors(r_script) = Len(r_script)
    /\ r_st.result = NULL
    /\ r_st.calls = 2

\* C6: whatever the external call does on each invocation, no exception
\* leaves _translate_chunk, and what it returns is a non-empty text or None.
C6_NeverRaises ==
    /\ r_st.pc # "raised"
    /\ r_st.pc = "returned" => (r_st.result = NULL \/ Len(r_st.result) > 0)

\* C6 witness: the call returned after the external call failed with an
\* exception on one invocation and streamed nothing on the next.
C6_Witness ==
    /\ r_st.pc = "returned"
    /\ r_st.calls = 2
    /\ r_script[1] = "error"
    /\ r_script[2] = "empty"
    /\ r_st.result = NULL

\* ------------------------------------------------- claims on FileWatcher
\* C7: the offset reported by get_last_offset never decreases, whatever the
\* interleaving of polls, manual triggers, flushes and stop() calls.
C7_OffsetMonotonic == [][w_offset' >= w_offset]_vars

\* C10: in auto mode, when the callback raises in a poll, the poll returns
\* with the offset and the persisted state untouched, the polling thread
\* writes neither before its next callback, and while the offset stays where
\* it was the next poll reads from the same offset a content that starts
\* with the bytes that failed, passes the threshold test and so hands them to
\* the callback again.
C10_FailedCallbackRetried ==
    [][ /\ (th[POLL].pc = "auto" /\ th'[POLL] # th[POLL] /\ w_failed' # NOCALL)
            => /\ th'[POLL].pc = "p_loop"
               /\ w_offset' = w_offset
               /\ w_state' = w_state
        /\ (w_failed # NOCALL /\ th'[POLL] # th[POLL])
            => /\ w_offset' = w_offset
               /\ w_state' = w_state
        /\ (w_failed # NOCALL /\ th[POLL].pc = "cat_read" /\ th'[POLL] # th[POLL])
            => /\ th'[POLL].pc = "auto"
               /\ th'[POLL].last = w_failed.offset
               /\ StartsWith(th'[POLL].content, w_failed.content)
        /\ (w_failed # NOCALL /\ th[POLL].pc = "auto")
            => /\ th[POLL].last = w_failed.offset
               /\ StartsWith(th[POLL].content, w_failed.content)
               /\ should_translate(th[POLL].flush, count_tokens(th[POLL].content), w_min)
      ]_vars

\* The polling thread is about to hand the callback the bytes that failed in
\* the previous poll.
C10_Witness ==
    /\ w_auto
    /\ th[POLL].pc = "auto"
    /\ w_failed # NOCALL
    /\ th[POLL].content = w_failed.content
    /\ th[POLL].last = w_failed.offset

\* ------------------------------------------- claims on TranslationWorker
\* The results with the id of call w that are in the queue or were taken from it.
ResultsOf(w) ==
    {<<"q", i>> : i \in {j \in 1..Len(queue) : queue[j].id = w}}
    \cup {<<"t", i>> : i \in 1..Len(taken[w])}

\* C9: no translate_async call lets an exception out of its thread, each
\* call has put no result before its thread ends and exactly one when it has
\* ended, and that result carries the offset the call was given.
C9_ExactlyOneResult ==
    \A w \in 1..Len(wk) :
        /\ wk[w].pc # "raised"
        /\ Cardinality(ResultsOf(w)) = (IF wk[w].pc = "done" THEN 1 ELSE 0)
        /\ \A i \in 1..Len(queue) : queue[i].id = w => queue[i].start_offset = wk[w].offset
        /\ \A i \in 1..Len(taken[w]) : taken[w][i] = wk[w].offset

\* Concurrent calls with different offsets have all ended, one of them through
\* the catch-all handler.
C9_Witness ==
    /\ Len(wk) = MaxCalls
    /\ \A w \in 1..Len(wk) : wk[w].pc = "done"
    /\ wk[1].offset # wk[2].offset
    /\ queue # <<>>
    /\ queue[1].error
    /\ \E w \in 1..Len(wk) : taken[w] # <<>>

\* ------------------------------------------------ claims on the orchestrator
\* C8: when run() has returned, the result of every translation the watcher
\* callback dispatched has been taken from the queue and handled.
C8_NoResultLost ==
    o_main = "returned" => \A w \in 1..Len(wk) : taken[w] # <<>>

\* ------------------------------------------ claims on the auto mode polls
\* The bytes [a, b) of a file holding text, decoded.
FileBytes(text, a, b) ==
    SubSeq(text, CharIndexAt(text, a, 1, 0), CharIndexAt(text, b, 1, 0) - 1)

\* The bytes of the file after the watcher's offset, decoded.
UnprocessedSlice == FileBytes(file, w_offset, ByteSize(file))

\* C11: in auto mode, when a poll finds unprocessed content of at least
\* min_tokens tokens and the callback returns normally, the callback was
\* invoked with (file bytes [last_offset, size), last_offset), the offset
\* afterwards equals the file size observed by that poll, and so nothing is
\* left for a later poll or flush to hand to the callback again.
C11_AutoCallbackExactSlice ==
    [][ /\ (th[POLL].pc = "auto" /\ ~th[POLL].flush /\ th'[POLL].pc = "auto_set")
            => /\ count_tokens(th[POLL].content) >= w_min
               /\ th[POLL].content = FileBytes(file, th[POLL].last, th[POLL].size)
        /\ (th[POLL].pc = "auto_set" /\ th'[POLL] # th[POLL])
            => w_offset' = th[POLL].size
      ]_vars

\* No stop() has begun its final flush: the polling thread is the only one
\* inside _check_and_trigger.
NoShutdownFlush == ~w_shutdown /\ \A t \in Callers : th[t].pc = "idle"

\* C12: in auto mode, while the unprocessed slice holds fewer than min_tokens
\* tokens and no shutdown flush is being performed, a step of the polling
\* thread neither invokes the callback (it neither returns from it nor
\* records a failure of it) nor changes the offset, and a poll that reads
\* the file gets the pending bytes again, from the same offset.
C12_BelowThresholdPending ==
    [][ (/\ w_auto
         /\ NoShutdownFlush
         /\ count_tokens(UnprocessedSlice) < w_min
         /\ th'[POLL] # th[POLL])
          => /\ w_offset' = w_offset
             /\ th'[POLL].pc # "auto_set"
             /\ w_failed' = w_failed
             /\ th[POLL].pc = "auto" => th'[POLL].pc = "p_loop"
             /\ (th[POLL].pc = "cat_read" /\ th[POLL].size > w_offset)
                 => /\ th'[POLL].pc = "auto"
                    /\ th'[POLL].last = w_offset
                    /\ th'[POLL].content # <<>>
                    /\ StartsWith(UnprocessedSlice, th'[POLL].content)
      ]_vars

\* The polling thread has read a pending slice that is below the threshold
\* and is about to leave it alone.
C12_Witness ==
    /\ w_auto
    /\ NoShutdownFlush
    /\ th[POLL].pc = "auto"
    /\ th[POLL].content # <<>>
    /\ th[POLL].content = UnprocessedSlice
    /\ count_tokens(UnprocessedSlice) < w_min

\* ------------------------------------- claims on the user-prompted mode
\* C13: in user-prompted mode a step of the polling thread never enters a
\* callback and never changes the offset; the poll appends what it read to
\* the accumulated content, and when the token count of the accumulated
\* content reaches next_threshold (and ready was not set) it sets ready and
\* records that token count.
C13_PromptedPollOnlyAccumulates ==
    [][ (~w_auto /\ th'[POLL] # th[POLL])
          => /\ w_offset' = w_offset
             /\ w_state' = w_state
             /\ w_threshold' = w_threshold
             /\ th'[POLL].pc \in {"p_loop", "cat_stat", "cat_read", "user", "exited"}
             /\ th[POLL].pc = "user"
                 => /\ w_acc' = w_acc \o th[POLL].content
                    /\ (count_tokens(w_acc') >= w_threshold /\ ~w_ready)
                        => w_ready' /\ w_ready_tokens' = count_tokens(w_acc')
                    /\ (count_tokens(w_acc') < w_threshold \/ w_ready)
                        => UNCHANGED <<w_ready, w_ready_tokens>>
             /\ th[POLL].pc # "user" => UNCHANGED <<w_acc, w_ready, w_ready_tokens>>
      ]_vars

\* A poll has just brought the accumulated content to exactly the threshold
\* and set ready.
C13_Witness ==
    /\ ~w_auto
    /\ th[POLL].pc = "p_loop"
    /\ w_ready
    /\ w_offset < ByteSize(file)
    /\ count_tokens(w_acc) = w_threshold
    /\ w_ready_tokens = w_threshold

\* No operation of the watcher is in progress: the polling thread waits
\* between two polls (or has ended) and no caller is inside stop() or
\* trigger_translation_manual().
BetweenOperations ==
    /\ th[POLL].pc \in {"p_loop", "exited"}
    /\ \A t \in Callers : th[t].pc = "idle"

\* C14: in user-prompted mode, in every reachable state between operations,
\* ready is true exactly when the token count of the accumulated content is
\* at least next_threshold.
C14_ReadyIffThreshold ==
    (~w_auto /\ w_thread # "none" /\ BetweenOperations)
        => (w_ready <=> count_tokens(w_acc) >= w_threshold)

\* A step that completes a successful trigger_translation_manual(): the
\* state update after a callback that returned.
TriggerSucceeds == \E t \in Callers : th[t].pc = "trig_update" /\ th'[t] # th[t]

\* C15: in user-prompted mode next_threshold never decreases; it starts at
\* min_tokens, every successful manual trigger adds min_tokens to it, and
\* every other step (a rejected or failed trigger, a poll, a flush) leaves
\* it unchanged, so after N successful triggers it is (N + 1) * min_tokens.
C15_ThresholdSchedule ==
    [][ ~w_auto
          => /\ w_threshold' >= w_threshold
             /\ w_ops = 0 => w_threshold = w_min
             /\ \E n \in 0..MaxOps : w_threshold = (n + 1) * w_min
             /\ TriggerSucceeds => w_threshold' = w_threshold + w_min
             /\ ~TriggerSucceeds => w_threshold' = w_threshold
      ]_vars

\* Two manual triggers have succeeded.
C15_Witness ==
    /\ ~w_auto
    /\ w_threshold = 3 * w_min
    /\ BetweenOperations

\* C16: a successful trigger_translation_manual() that overlaps nothing but
\* polls advances the offset by exactly the UTF-8 byte length of the content
\* it snapshotted, removes exactly that content from the front of the
\* accumulation buffer (what the polling thread appended since the snapshot
\* stays), clears ready, and drops no content: the bytes the offset passes
\* are the bytes that were handed to the callback.
C16_TriggerConsumesSnapshot ==
    [][ \A t \in Callers :
          (~w_auto /\ w_ops = 1 /\ th[t].pc = "trig_update" /\ th'[t] # th[t])
            => /\ w_offset' = w_offset + ByteSize(th[t].content)
               /\ StartsWith(w_acc, th[t].content)
               /\ th[t].content \o w_acc' = w_acc
               /\ ~w_ready'
               /\ w_offset' <= ByteSize(file)
               /\ th[t].content = FileBytes(file, w_offset, w_offset')
      ]_vars

\* C17: trigger_translation_manual() called while ready is false ends at
\* once (return False, line 191) without entering the callback, and a
\* trigger whose callback raises ends at once (return False, line 207)
\* without reaching the state update; in both cases the step leaves the
\* offset, the accumulation buffer, next_threshold, the ready flag and the
\* persisted state unchanged.
C17_RejectedTriggerChangesNothing ==
    [][ \A t \in Callers :
          /\ (~w_auto /\ ~w_ready /\ w_ops' # w_ops)
               => /\ th'[t].pc # "trig_cb"
                  /\ UNCHANGED <<w_offset, w_acc, w_threshold, w_ready, w_ready_tokens, w_state>>
          /\ (~w_auto /\ th[t].pc = "trig_cb" /\ th'[t].pc # "trig_cb")
               => /\ th'[t].pc \in {"idle", "trig_update"}
                  /\ UNCHANGED <<w_offset, w_acc, w_threshold, w_ready, w_ready_tokens, w_state>>
      ]_vars

\* Every trigger that was called has returned False (none reached the state
\* update, no stop() was called), and the content is still ready at the
\* offset where it was.
C17_Witness ==
    /\ ~w_auto
    /\ w_ops = MaxOps
    /\ ~w_shutdown
    /\ \A t \in Callers : th[t].pc = "idle"
    /\ w_ready
    /\ w_threshold = w_min
    /\ w_acc # <<>>
    /\ w_offset = 0
    /\ w_state.kind # "json"

\* ------------------- claims on the orchestrator in user-prompted mode
\* C18: ConcurrentTranslationOrchestrator.trigger_translation_manual() called
\* while active_translations > 0 goes to its return False without calling
\* the watcher; neither that step nor the return dispatches a translation
\* (no worker is spawned, the counter is not raised) or changes the
\* watcher's offset, buffer, threshold, ready flag or persisted state.
C18_TriggerRefusedWhileTranslating ==
    [][ \A t \in Callers :
          /\ (th[t].pc = "idle" /\ th'[t] # th[t] /\ o_active > 0)
               => /\ th'[t].pc = "o_rejected"
                  /\ UNCHANGED <<w_offset, w_acc, w_threshold, w_ready, w_ready_tokens,
                                 w_state, wk, queue, o_active>>
          /\ (th[t].pc = "o_rejected" /\ th'[t] # th[t])
               => /\ th'[t].pc = "idle"
                  /\ UNCHANGED <<w_offset, w_acc, w_threshold, w_ready, w_ready_tokens,
                                 w_state, wk, queue, o_active>>
      ]_vars

\* A trigger is being refused although the watcher has content ready: a
\* translation dispatched by another trigger is still active.
C18_Witness ==
    /\ ~w_auto
    /\ w_ready
    /\ o_active > 0
    /\ \E t \in Callers : th[t].pc = "o_rejected"

\* C19: in user-prompted mode the watcher's offset does not pass the start
\* of a triggered content range before the consumer has handled a result
\* for that range, and while no handled result has reported a success
\* (every chunk failed, or nothing was handled yet) the offset stays where
\* it was before the trigger.
C19_OffsetWaitsForSuccess ==
    ~w_auto
      => \A w \in 1..Len(wk) :
            (taken[w] = <<>> \/ o_succ = 0) => w_offset <= wk[w].offset

\* The number of results the consumer has taken from the queue and handled,
\* over the calls 1..n.
RECURSIVE HandledCount(_)
HandledCount(n) == IF n = 0 THEN 0 ELSE Len(taken[n]) + HandledCount(n - 1)

RECURSIVE ExpectedOutput(_)
ExpectedOutput(i) ==
    IF i > Len(t_chunks) THEN <<>>
    ELSE (IF t_outcome[i] = "text"
          THEN Translated(t_chunks[i][2]) \o SEPARATOR
          ELSE <<>>) \o ExpectedOutput(i + 1)

SuccessfulChunks == {i \in 1..Len(t_chunks) : t_outcome[i] = "text"}

\* C21: for every assignment of outcomes to the chunks of one translate()
\* call (a text, None, or in the parallel run an exception escaping the pool
\* thread), a run that returns has attempted every chunk, its successes and
\* failures add up to the number of chunks, the successes are the chunks
\* that returned a text, and the output file holds exactly their
\* translations, each followed by the blank-line separator.
C21_EveryChunkCounted ==
    /\ p_pc = "done"
         => /\ \A i \in 1..Len(t_chunks) : p_future[i] = "done"
            /\ p_acc.successes + p_acc.failures = Len(t_chunks)
            /\ p_acc.successes = Cardinality(SuccessfulChunks)
            /\ p_out = ExpectedOutput(1)
    /\ s_pc = "done"
         => /\ s_next = Len(t_chunks) + 1
            /\ s_acc.successes + s_acc.failures = Len(t_chunks)
            /\ s_acc.successes = Cardinality(SuccessfulChunks)
            /\ s_out = ExpectedOutput(1)

\* A parallel run has returned in which one chunk raised, one returned None
\* and one was translated.
C21_Witness ==
    /\ p_pc = "done"
    /\ \E i, j, k \in 1..Len(t_chunks) :
          /\ t_outcome[i] = "raise"
          /\ t_outcome[j] = "null"
          /\ t_outcome[k] = "text"
    /\ p_acc.failures = 2

\* --------------------------------------- claims on TranslationWorker (2)
\* The translations of the chunks from i on whose engine call returns a text.
RECURSIVE ExpectedParts(_, _, _)
ExpectedParts(chunks, script, i) ==
    IF i > Len(chunks) THEN <<>>
    ELSE (IF script[i] = "text" THEN <<Translated(chunks[i][2])>> ELSE <<>>)
         \o ExpectedParts(chunks, script, i + 1)

\* C22: whatever the engine does on each chunk of a content handed to
\* translate_async (a text, a permanent failure, a transient failure), the
\* worker goes through every planned chunk: the result it puts is not an
\* error result, its successes and failures add up to the number of planned
\* chunks, and translated_text is the translations of the chunks that
\* succeeded, in chunk order, joined by "\n\n".
C22_FailedChunkSkipped ==
    \A w \in 1..Len(wk) :
       wk[w].pc = "start" =>
          \A mtl \in {1, MaxMTL} :
             LET chunks == chunk_generator(LinesOfWorker(wk[w].content), mtl)
             IN  \A script \in [1..Len(chunks) -> ApiBehaviours] :
                    LET r == _translate_worker(w, wk[w].content, wk[w].offset,
                                               mtl, FALSE, script)
                        good == {i \in 1..Len(chunks) : script[i] = "text"}
                    IN  /\ ~r.raised
                        /\ ~r.result.error
                        /\ r.result.successes + r.result.failures = Len(chunks)
                        /\ r.result.successes = Cardinality(good)
                        /\ r.result.translated_text
                             = JoinParts(ExpectedParts(chunks, script, 1))

\* A worker is about to put a result in which a chunk failed and another
\* chunk of the same content was translated.
C22_Witness ==
    \E w \in 1..Len(wk) :
       /\ wk[w].pc = "put"
       /\ ~wk[w].result.error
       /\ wk[w].result.failures > 0
       /\ wk[w].result.successes > 0
       /\ wk[w].result.translated_text # <<>>

\* ------------------------------------------ claims on _translate_chunk (2)
\* C23: when the engine's response to an attempt is empty or missing (the
\* permanent failure), that attempt is the last: _translate_chunk returns
\* None with that one more invocation and no backoff sleep, whatever
\* max_retries and the backoff are, and nothing is invoked after the return.
C23_PermanentFailureNoRetry ==
    [][ /\ (r_st.pc = "loop" /\ r_script[r_st.calls + 1] = "empty")
            => /\ r_st'.pc = "returned"
               /\ r_st'.result = NULL
               /\ r_st'.calls = r_st.calls + 1
               /\ r_st'.sleeps = r_st.sleeps
        /\ r_st.pc = "returned" => r_st' = r_st
      ]_vars

\* With retries and backoff configured, the first response was empty and the
\* call returned None after that single invocation, without sleeping.
C23_Witness ==
    /\ r_st.pc = "returned"
    /\ r_max_retries = MaxRetries
    /\ r_backoff
    /\ r_script[1] = "empty"
    /\ r_st.result = NULL
    /\ r_st.calls = 1
    /\ r_st.sleeps = 0

\* C24: the number of translations in flight (translate_async was called for
\* them, their result has not been taken from the queue by the consumer)
\* never exceeds the capacity of the result queue.
C24_InFlightWithinCapacity ==
    Len(wk) - HandledCount(Len(wk)) <= QueueCap

C26_StopOrder ==
    [][ \A t \in Callers :
          /\ (th[t].ret # "stop_set" /\ th'[t].ret = "stop_set")
               => /\ w_thread # "none"
                  /\ th'[t].pc = "cat_stat"
                  /\ th'[t].flush
                  /\ w_shutdown' = w_shutdown
          /\ (th[t].ret = "stop_set" /\ th'[t] # th[t])
               => /\ th'[t].ret = "stop_set" \/ th'[t].pc = "stop_set"
                  /\ w_shutdown' = w_shutdown
                  /\ (/\ th[t].pc = "cat_read"
                      /\ th[t].size > w_offset
                      /\ CharIndexAt(file, w_offset, 1, 0) # 0)
                       => /\ th'[t].pc = "flush_acc"
                          /\ StartsWith(th'[t].content,
                                        FileBytes(file, w_offset, th[t].size))
                  /\ (th[t].pc = "flush_acc" /\ w_acc \o th[t].content # <<>>)
                       => /\ th'[t].pc = "flush_cb"
                          /\ th'[t].content = w_acc \o th[t].content
          /\ (th[t].pc = "stop_set" /\ th'[t] # th[t])
               => /\ w_shutdown'
                  /\ w_state' = w_state
                  /\ th'[t].pc = "stop_join"
          /\ (th[t].pc = "stop_join" /\ th'[t] # th[t])
               => /\ w_shutdown
                  /\ th'[t].pc = "save_snap"
                  /\ th'[t].ret = "idle"
          /\ (th[t].pc = "save_snap" /\ th'[t] # th[t])
               => /\ th'[t].pc = "save_write"
                  /\ th'[t].snap = w_offset
          /\ (th[t].pc = "save_write" /\ th'[t] # th[t])
               => /\ w_state' = StateFile(th[t].snap)
                  /\ th'[t].pc = th[t].ret
      ]_vars

\* C26 witness: the only operation begun is a stop(); its flush left content
\* untranslated, the shutdown event is set, the join returned although the
\* polling thread is still inside a poll, and the caller is writing the state
\* file.
C26_Witness ==
    /\ w_ops = 1
    /\ th["c1"].pc = "save_write"
    /\ th["c1"].ret = "idle"
    /\ w_shutdown
    /\ w_thread # "exited"
    /\ th[POLL].pc # "p_loop"
    /\ w_acc # <<>>
    /\ w_state.kind # "json"

\* C27: once the offset has been advanced and no operation of the watcher is
\* in progress, the state file holds the watcher's in-memory offset.
C27_StateFileHoldsOffset ==
    (w_thread # "none" /\ w_offset > 0 /\ BetweenOperations)
        => w_state = StateFile(w_offset)

\* ------------------------------------------------ claims on the state file
\* C28: whatever the state file holds, the constructor returns a watcher; its
\* offset is the last_processed_offset of a well-formed state file and 0 for
\* a missing or malformed one.
C28_ConstructionNeverFails ==
    /\ w_thread # "failed"
    /\ w_thread = "constructed"
         => w_offset = IF w_state.kind = "json" THEN w_state.last_processed_offset
                       ELSE 0

\* -------------------------------------------------------- claims on locks
\* C29: a thread that is about to enter, or is executing, an engine call, a
\* result-queue get or put or a thread join holds none of the three locks;
\* a thread enters the translation callback holding none of them, and while
\* it is inside the callback it holds neither the offset lock nor the
\* metrics lock (the callback itself takes the active-translations lock
\* for its counter and releases it before translate_async).
C29_NoLockAcrossBlockingCall ==
    \A t \in LThreads :
        /\ lk_in[t] \in {"engine", "get", "put", "join"} => lk_held[t] = {}
        /\ lk_in[t] = "callback" => lk_held[t] \subseteq {ACTIVE_LOCK}
        /\ (lk_todo[t] # <<>> /\ Head(lk_todo[t]).k = "enter") => lk_held[t] = {}

\* C29 witness: in user-prompted mode the menu thread is inside the callback
\* of a manual trigger and holds no lock, a worker is in an engine call, the
\* thread in run() waits in get, and the polling thread holds the offset
\* lock at the same time.
C29_Witness ==
    /\ ~w_auto
    /\ lk_in["menu"] = "callback"
    /\ lk_held["menu"] = {}
    /\ lk_in["worker"] = "engine"
    /\ lk_in["main"] = "get"
    /\ lk_held["poll"] = {OFFSET_LOCK}

\* ------------------------------------------------- claims on TokenCounter
\* C30: whatever the interleaving of the constructing threads, at most one
\* object is ever created and the encoding is loaded at most once; every
\* call that has returned returned that one object, and once every call has
\* returned the encoding has been loaded exactly once.
C30_SingleInstance ==
    /\ tc_created <= 1
    /\ tc_loads <= 1
    /\ \A t \in CtorThreads : tc_pc[t] = "done" => tc_ret[t] = 1
    /\ (\A t \in CtorThreads : tc_pc[t] = "done") => tc_created = 1 /\ tc_loads = 1

\* C30 witness: every thread passed the first test before any instance
\* existed; one of them has created the instance and loaded the encoding and
\* still holds the lock, the others wait for the lock.
C30_Witness ==
    /\ tc_lock = 1
    /\ tc_pc[1] = "release"
    /\ tc_instance = 1
    /\ tc_loads = 1
    /\ \A t \in CtorThreads \ {1} : tc_pc[t] = "acquire"

\* ----------------------------------- claims on the worker's engine calls
\* What the first invocation does when the external call fails transiently
\* k times and then succeeds.
FirstCallOf(k) == IF k = 0 THEN "text" ELSE "error"

\* C31: when the external call of every chunk fails transiently at most
\* max_retries times and then succeeds, the result the worker puts counts
\* every planned chunk as a success.
C31_WorkerRetriesTransient ==
    \A w \in 1..Len(wk) :
       wk[w].pc = "start" =>
          \A mtl \in {1, MaxMTL} :
             LET chunks == chunk_generator(LinesOfWorker(wk[w].content), mtl)
             IN  \A k \in [1..Len(chunks) -> 0..MaxRetries] :
                    LET script == [i \in 1..Len(chunks) |-> FirstCallOf(k[i])]
                        r == _translate_worker(w, wk[w].content, wk[w].offset,
                                               mtl, FALSE, script)
                    IN  /\ ~r.raised
                        /\ r.result.successes = Len(chunks)
                        /\ r.result.failures = 0

\* ------------------------------ claims on translations in flight (manual)
\* C32: in user-prompted mode the active-translations counter never exceeds 1.
C32_AtMostOneInFlight == ~w_auto => o_active <= 1

\* ------------------------------------- claims on the planner's algorithm
TokensOf(group) == SumSeq([i \in 1..Len(group) |-> count_tokens(group[i])])

\* The closing rule as the specification words it: lines are gathered into
\* groups; `closed` are the groups already produced, `cur` the open group.
RECURSIVE ReferenceGroups(_, _, _, _, _, _)
ReferenceGroups(closed, cur, rest, total, numChunks, mtl) ==
    IF rest = <<>> THEN (IF cur = <<>> THEN closed ELSE Append(closed, cur))
    ELSE LET line == Head(rest)
             sum == TokensOf(cur) + count_tokens(line)
             close == /\ cur # <<>>
                      /\ sum * numChunks >= total
                      /\ (numChunks - Len(closed) > 1 \/ sum > mtl)
         IN  IF close
             THEN ReferenceGroups(Append(closed, cur), <<line>>, Tail(rest),
                                  total, numChunks, mtl)
             ELSE ReferenceGroups(closed, Append(cur, line), Tail(rest),
                                  total, numChunks, mtl)

\* The final merge as the specification words it.
ReferenceMerge(groups, total, numChunks, mtl) ==
    LET n == Len(groups)
    IN  IF /\ n >= 2
           /\ 10 * TokensOf(groups[n]) * numChunks < 7 * total
           /\ TokensOf(groups[n - 1]) + TokensOf(groups[n]) <= mtl
        THEN SubSeq(groups, 1, n - 2) \o <<groups[n - 1] \o groups[n]>>
        ELSE groups

ReferenceChunks(lines, mtl) ==
    LET total == TokensOf(lines)
        numChunks == CeilDiv(total, mtl)
        groups == IF total <= mtl THEN <<lines>>
                  ELSE ReferenceMerge(
                         ReferenceGroups(<<>>, <<>>, lines, total, numChunks, mtl),
                         total, numChunks, mtl)
    IN  [i \in 1..Len(groups) |-> <<i, Concat(groups[i])>>]

\* C33: what chunk_generator yields is what the reference algorithm yields:
\* one chunk with all lines when the total fits; otherwise a non-empty chunk is
\* closed before a line exactly when buffer + line reaches the target and
\* (more than one chunk remains or buffer + line exceeds the limit), and the
\* last chunk is merged into the previous one exactly when it is below 0.7 x
\* target and the merged size fits. Three 5-token lines with a limit of 10
\* yield [(1, line1), (2, line2 + line3)].
C33_MatchesReference ==
    /\ c_pc = "done" => c_out = ReferenceChunks(c_lines, c_mtl)
    /\ LET l == LineOfTokens(5)
       IN  chunk_generator(<<l, l, l>>, 10) = <<<<1, l>>, <<2, l \o l>>>>

\* A plan of more than one chunk in which a group was closed by the limit
\* alone (the last planned chunk) and an oversized line stands alone.
C33_Witness ==
    /\ c_pc = "done"
    /\ TokensOf(c_lines) > c_mtl
    /\ Len(c_out) > CeilDiv(TokensOf(c_lines), c_mtl)
    /\ \E i \in 1..Len(c_lines) : count_tokens(c_lines[i]) > c_mtl
    /\ c_out = ReferenceChunks(c_lines, c_mtl)

\* A plan whose tiny last chunk was merged into the previous one.
C33_MergeReached ==
    /\ c_pc = "done"
    /\ TokensOf(c_lines) > c_mtl
    /\ LET total == TokensOf(c_lines)
           numChunks == CeilDiv(total, c_mtl)
           groups == ReferenceGroups(<<>>, <<>>, c_lines, total, numChunks, c_mtl)
       IN  ReferenceMerge(groups, total, numChunks, c_mtl) # groups

\* C34: when the total exceeds the limit and no single line does, every chunk
\* yielded holds at least 0.7 x target tokens, target = T / ceil(T / limit).
C34_ChunksBalanced ==
    LET total == TokensOf(c_lines)
        numChunks == CeilDiv(total, c_mtl)
    IN  (/\ c_pc = "done"
         /\ total > c_mtl
         /\ \A i \in 1..Len(c_lines) : count_tokens(c_lines[i]) <= c_mtl)
        => \A i \in 1..Len(c_out) :
              MIN_LAST_CHUNK_RATIO_DEN * ChunkTokens(i) * numChunks
                 >= MIN_LAST_CHUNK_RATIO_NUM * total

\* ------------------------------------------------- claims on the shutdown
\* C35: once stop() has been called on a running orchestrator, run()
\* eventually returns, whatever translations are in flight and whether or not
\* the polling thread ends within the join timeout.
C35_RunReturnsAfterStop == o_shutdown ~> o_main = "returned"

\* run() has returned while a translation is still in flight and the polling
\* thread is still inside a poll.
C35_Witness ==
    /\ o_main = "returned"
    /\ o_shutdown
    /\ o_active > 0
    /\ w_thread = "alive"

\* Over a file that does not grow each thread dispatches at most once, so the
\* number of translations the workers are explored for is never what keeps
\* a thread from calling the callback.
ShutdownDispatchesWithinRange ==
    \A t \in Threads :
       (th[t].pc = "auto"
          /\ should_translate(th[t].flush, count_tokens(th[t].content), w_min))
       => Len(wk) < Cardinality(Threads)

\* --------------------------------------- claims on the accumulation buffer
\* C36: in user-prompted mode, between two polls and with no trigger or
\* stop() called so far, the accumulation buffer is the content of the file
\* from the offset up to a size the file has had: no part of the file is in
\* the buffer more than once.
C36_BufferIsUnprocessedSlice ==
    (~w_auto /\ w_ops = 0 /\ th[POLL].pc = "p_loop")
        => StartsWith(UnprocessedSlice, w_acc)

\* ----------------------------------------- claims on the offset and the file
\* C37: the watcher's offset is at most the current size of the input file.
C37_OffsetWithinFile == w_offset <= ByteSize(file)

\* ------------------------------------------- claims on the dispatched slices
\* C38: in auto mode with a callback that never raises, consecutive
\* invocations of the callback (by the polling thread, by the flush of
\* Orchestrator.stop() and by the flush of run()'s cleanup) receive contiguous
\* slices: the offset of an invocation is the offset of the previous one plus
\* the byte length of its content.  Stated for the translations that have not
\* started yet, whose content is still at hand.
C38_DispatchesContiguous ==
    \A i \in 1..(Len(wk) - 1) :
       (w_auto /\ wk[i].pc = "start" /\ wk[i + 1].pc = "start")
          => wk[i + 1].offset = wk[i].offset + ByteSize(wk[i].content)

\* ------------------------------------ claims on the counter's encoding
\* C39: when a constructor call of TokenCounter has returned, the encoding
\* is initialized (count_tokens does not fail its assertion), also when the
\* first constructions run concurrently.
C39_ReturnedInstanceHasEncoding ==
    \A t \in CtorThreads : tc_pc[t] = "done" => tc_loads > 0

\* --------------------------------------------- claims on the workers' put
\* C40: the put of a worker on the bounded result queue never blocks for
\* ever: whenever a worker waits to put on a full queue, the consumer is
\* still in its loop or its drain and will take a result.
C40_BlockedPutHasConsumer ==
    \A w \in 1..Len(wk) :
       (wk[w].pc = "put" /\ Len(queue) >= QueueCap)
          => o_main \in {"loop", "drain"}

====
